---- MODULE Spec2Model ----
(***************************************************************************)
(* The TreeView reconciliation engine of pkg/walk/treeview.go: the two     *)
(* registries item2Info / handle2Item, the native tree-view control they   *)
(* mirror, and the tree model that drives them through its events.         *)
(*                                                                         *)
(* Items are 1..NumItems; 0 is the nil item.  item.Parent() is fixed per   *)
(* item (ParentOf); which items the model currently holds, and in which    *)
(* order, is the variable `children` (children[0] is the root list).       *)
(* Every engine operation is one action: the handler runs to completion,   *)
(* native calls and the notifications they deliver included.  The Go code  *)
(* is threaded through a record `s` ("the frame") that holds the fields of *)
(* the TreeView, the native control, the model's check flags and the       *)
(* result (ret, err) of the call that returned last.                       *)
(***************************************************************************)
EXTENDS Integers, Sequences, FiniteSets, TLC

\* ------------------------------------------------------------------ bounds
\* number of tree items of the universe
NumItems == 6
\* number of native handles the control can hand out before an insert fails
MaxHandle == 7
\* a native call of an operation may be made to fail up to this call index
MaxFailAt == 1
\* number of operations of a run
MaxOps == 4
\* number of operations of a run on the lazy model whose item 3 comes and goes
MaxLazyOps == 8

\* number of TreeModel objects
NumModels == 2
\* number of operations of a run in which the tree view changes its model
MaxModelOps == 4
\* number of operations of a run in which a handler of the application re-enters
MaxReenterOps == 3
\* number of WindowGroup objects the manager creates in a run
MaxGroups == 2
\* number of thread IDs
NumThreads == 1
\* number of calls on window groups in a sequential run
MaxGroupOps == 4
\* largest change of a counter in one Add or ignore call
MaxDelta == 2
\* number of goroutines that call Group and Done concurrently
NumCallers == 2
\* number of Group and Done calls the goroutines make in a run
MaxCalls == 4
\* largest magnitude of a NumberEdit value or range bound
MaxNumber == 2
\* number of operations on the NumberEdit in a run
MaxNumberOps == 3
\* number of GetMessage calls of the main loop in a run
MaxMessages == 4
\* largest WParam of a message
MaxWParam == 2
\* number of handlers attached to the event in a run
MaxAttach == 3
\* number of Publish calls on the event in a run
MaxPublish == 2
\* number of Publish passes that can be under way at once (one inside a handler
\* of the other)
MaxDepth == 2
\* number of distinct arguments an event is published with
NumArgs == 2

\* ------------------------------------------------------- program constants
\* win.TVI_ROOT and win.TVI_FIRST, the pseudo handles of the native control
TVI_ROOT == -65536
TVI_FIRST == -65535
\* the nil TreeItem
NoItem == 0
\* the nil handler of a vacant slot
NilHandler == 0
\* the nil TreeModel
NoModel == 0
\* no entry in the manager's map for a thread ID
NoGroup == 0
\* the closures SetModel attaches to the events of a model
TreeViewHandler == 1
\* a handler that another subscriber attaches to an event of a model
SubscriberHandler == 2

Items == 1..NumItems
Handles == 1..MaxHandle

VARIABLES
  children,        \* the model: children[p] is p's child list, children[0] the roots
  checked,         \* the model: checked[x] is x.Checked()
  modelLazy,       \* the model: LazyPopulation(), fixed for the model's lifetime
  model,           \* tv.model # nil
  lazyPopulation,  \* tv.lazyPopulation
  item2Info,       \* tv.item2Info
  handle2Item,     \* tv.handle2Item
  currItem,        \* tv.currItem
  native,          \* the native tree-view control
  lastOp,          \* the operation that ran last, its outcome, the native calls it
                   \* made, the first one refused, what it published, whether it
                   \* repeated a full reset, and the suspend brackets it opened
  left,            \* number of operations the run may still make
  suspended,       \* number of suspend brackets of the tree view that are open
  tvModel,         \* tv.model: which TreeModel object, NoModel for nil
  modelEvents,     \* modelEvents[m][k]: the handlers of the event k of the model m
  handlerHandles,  \* tv.itemsResetEventHandlerHandle and its four fellows, by event
  handlers,        \* an event: e.handlers, a slot is [handler, once]
  capacity,        \* an event: cap(e.handlers)
  passes,          \* the Publish calls of the event under way, the innermost last
  registrations,   \* registrations[h]: the handle Attach returned for the handler h
                   \* (for Once: the slot it took), whether it was attached with
                   \* Once, whether its owner detached it, how often it was invoked
  lastCall,        \* the call on the event that was made or returned last
  lastPass,        \* the Publish pass that returned last
  published,       \* number of Publish calls made on the event
  groups,          \* wgm.groups: groups[t] is the group of thread t, or NoGroup
  wgs,             \* the WindowGroup objects created so far: refs, ignored,
                   \* threadID, removed, and how often completion was invoked
  wgPanic,         \* the panic a call on a group raised, "none" if none did
  callers,         \* the goroutines: where each is in Group or Done, the group it
                   \* works on or holds, the refs value it loaded, its delta
  wgLeft,          \* number of calls on window groups the run may still make
  wgLast,          \* the call on a window group that was made or returned last
  ne,              \* a NumberEdit: ne.edit.minValue, maxValue, value, decimals
  neLast,          \* the NumberEdit operation that ran last: whether it returned
                   \* an error, what it published, and whether every operation
                   \* so far succeeded
  neLeft,          \* number of operations on the NumberEdit the run may still make
  loop,            \* a form's mainLoop: whether it runs, fb.hWnd # 0, what the
                   \* last pass of the loop retrieved and did, the value returned
  loopLeft         \* number of GetMessage calls the run may still make

treeVars == <<children, checked, modelLazy, model, lazyPopulation, item2Info,
              handle2Item, currItem, native, lastOp, left, suspended, tvModel,
              modelEvents, handlerHandles>>

eventVars == <<handlers, capacity, passes, registrations, lastCall, lastPass, published>>

groupVars == <<groups, wgs, wgPanic, callers, wgLeft, wgLast>>

numberVars == <<ne, neLast, neLeft>>

loopVars == <<loop, loopLeft>>

otherVars == <<groupVars, numberVars, loopVars>>

vars == <<treeVars, eventVars, otherVars>>

\* ----------------------------------------------------------------- helpers
EmptyMap == [x \in {} |-> 0]

Put(f, k, v) == [x \in (DOMAIN f) \cup {k} |-> IF x = k THEN v ELSE f[x]]

Drop(f, K) == [x \in (DOMAIN f) \ K |-> f[x]]

Lookup(f, k) == IF k \in DOMAIN f THEN f[k] ELSE 0

Min(S) == CHOOSE x \in S : \A y \in S : x <= y

Max(S) == CHOOSE x \in S : \A y \in S : x >= y

Range(q) == {q[i] : i \in 1..Len(q)}

IndexOf(q, x) == CHOOSE i \in 1..Len(q) : q[i] = x

InsertAt(q, i, x) == SubSeq(q, 1, i) \o <<x>> \o SubSeq(q, i + 1, Len(q))

Without(q, K) == SelectSeq(q, LAMBDA y : y \notin K)

RECURSIVE Ascending(_)
Ascending(S) == IF S = {} THEN <<>> ELSE <<Min(S)>> \o Ascending(S \ {Min(S)})

\* every sequence without repetition of elements of S
Arrangements(S) ==
  {q \in UNION {[1..n -> S] : n \in 0..Cardinality(S)} :
     \A i, j \in 1..Len(q) : i # j => q[i] # q[j]}

\* ------------------------------------------------------------------ events
\* TreeCheckableItemEvent (RectEvent has the same code): the handler slots as a
\* sequence hs; slot i of the Go slice is hs[i + 1]
Slot(handler, once) == [handler |-> handler, once |-> once]

Vacancies(hs) == {i \in 0..Len(hs) - 1 : hs[i + 1].handler = NilHandler}

\* the index Attach returns
AttachIndex(hs) == IF Vacancies(hs) # {} THEN Min(Vacancies(hs)) ELSE Len(hs)

\* a variant that appends even when a slot is vacant
AttachAppending(hs, handler) == Append(hs, Slot(handler, FALSE))

\* e.handlers after Attach(handler)
Attach(hs, handler) ==
  IF Vacancies(hs) # {}
  THEN [hs EXCEPT ![AttachIndex(hs) + 1] = Slot(handler, FALSE)]
  ELSE Append(hs, Slot(handler, FALSE))

\* a variant that cuts the slot out of the slice
DetachRemoving(hs, handle) == SubSeq(hs, 1, handle) \o SubSeq(hs, handle + 2, Len(hs))

\* e.handlers after Detach(handle)
Detach(hs, handle) == [hs EXCEPT ![handle + 1].handler = NilHandler]

\* e.handlers after Once(handler)
Once(hs, handler) == [Attach(hs, handler) EXCEPT ![AttachIndex(hs) + 1].once = TRUE]

\* the events of a TreeModel: ItemsReset(), ItemChanged(), ItemInserted(),
\* ItemRemoved(), ItemChecked()
EventKinds == {"itemsReset", "itemChanged", "itemInserted", "itemRemoved", "itemChecked"}

Models == 1..NumModels

\* Attach and Detach of the events of a TreeModel, which are TreeItemEvents but
\* for ItemChecked: a handler list with the slot discipline of
\* TreeCheckableItemEvent
ModelEventAttach(hs, handler) == Attach(hs, handler)

ModelEventDetach(hs, handle) == Detach(hs, handle)

\* a variant of the detaching in SetModel that leaves the handlers attached
DetachedNever(ev, m, hh) == ev

\* SetModel, tv.model # nil: the five Detach calls on the events of tv.model
DetachedAll(ev, m, hh) ==
  IF m = NoModel THEN ev
  ELSE [ev EXCEPT ![m] = [k \in EventKinds |-> ModelEventDetach(ev[m][k], hh[k])]]

\* SetModel, model # nil: the five Attach calls on the events of model
AttachedAll(ev, m) ==
  IF m = NoModel THEN ev
  ELSE [ev EXCEPT ![m] = [k \in EventKinds |-> ModelEventAttach(ev[m][k], TreeViewHandler)]]

\* the five handles those Attach calls return
AttachedHandles(ev, m, hh) ==
  IF m = NoModel THEN hh ELSE [k \in EventKinds |-> AttachIndex(ev[m][k])]

\* the slots of the event k of the model m that hold the handler h
SlotsOf(ev, m, k, h) == {i \in 0..Len(ev[m][k]) - 1 : ev[m][k][i + 1].handler = h}

\* append allocates a new backing array when len = cap; the capacity it picks
GrowCap(c) == IF c = 0 THEN 1 ELSE 2 * c

Reallocates(hs, c) == Vacancies(hs) = {} /\ Len(hs) = c

\* --------------------------------------------------------------- the model
\* item.Parent(): items 1 and 2 are roots, 3 and 4 hang under 1, 5 under 3,
\* and every further item under its predecessor
ParentOf(i) == IF i <= 2 THEN NoItem ELSE IF i <= 4 THEN 1 ELSE IF i = 5 THEN 3 ELSE i - 1

KidsOf(p) == {i \in Items : ParentOf(i) = p}

RECURSIVE Ancestors(_)
Ancestors(x) == IF ParentOf(x) = NoItem THEN {} ELSE {ParentOf(x)} \cup Ancestors(ParentOf(x))

Descendants(x) == {y \in Items : x \in Ancestors(y)}

\* x is held by the model `kids`: it is in its parent's list, as are its ancestors
InModel(kids, x) == \A y \in {x} \cup Ancestors(x) : y \in Range(kids[ParentOf(y)])

ChildCount(s, p) == Len(s.kids[p])

ChildAt(s, p, i) == s.kids[p][i + 1]

\* ---------------------------------------------------------------- results
Return(s, ret, err) == [s EXCEPT !.ret = ret, !.err = err]

Realized(s, x) == x \in DOMAIN s.item2Info

\* ------------------------------------------------------- the suspend bracket
\* tv.SetSuspended(suspend): true opens a bracket that defers redraw, false
\* closes one; redraw is deferred while a bracket is open.  brackets counts the
\* brackets the operation opened
SetSuspended(s, suspend) ==
  IF suspend THEN [s EXCEPT !.suspended = @ + 1, !.brackets = @ + 1]
  ELSE [s EXCEPT !.suspended = IF @ > 0 THEN @ - 1 ELSE 0]

\* a variant of the deferred call that is skipped when the function returns
\* an error
DeferredOnSuccess(s) == IF s.err THEN s ELSE SetSuspended(s, FALSE)

\* defer tv.SetSuspended(false): runs when the function returns or panics
Deferred(s) == SetSuspended(s, FALSE)

\* ------------------------------------------------------ the native control
\* kids[h]: the native children of h in display order (kids[TVI_ROOT]: the roots);
\* par[h]: h's native parent; item[h]: the item h was inserted for; chk[h]: its
\* checkbox state image; sel: the selected handle (0: none)
NativeEmpty ==
  [kids |-> [h \in {TVI_ROOT} |-> <<>>], par |-> EmptyMap, item |-> EmptyMap,
   chk |-> EmptyMap, sel |-> 0]

Live(n) == DOMAIN n.item

RECURSIVE NativeSubtree(_, _)
NativeSubtree(n, h) == {h} \cup UNION {NativeSubtree(n, k) : k \in Range(n.kids[h])}

\* a native call is made: whether it is the one that fails, and the call counted
Failing(s) == s.calls + 1 = s.failAt

Called(s) == [s EXCEPT !.calls = @ + 1]

\* the native call returns 0; refusedAt keeps the index of the first such call
Refused(s) ==
  [Called(s) EXCEPT !.ret = 0, !.failed = TRUE,
                    !.refusedAt = IF s.failed THEN @ ELSE s.calls + 1]

\* a handler of the application attached to one of the tree view's events: ev
\* is the event ("none": no handler), op the change it makes to the model when
\* it is invoked, which the model publishes to the engine at once - "insert",
\* "remove" or "update" of item
NoObserver == [ev |-> "none", op |-> "none", item |-> NoItem]

RECURSIVE Reenter(_, _)

\* the handler has returned to Publish: ret and err are again those of the code
\* that published
Resumed(s, ret, err) == [s EXCEPT !.ret = ret, !.err = err]

\* Publish invokes the application's handler of the event ev; the handler acts
\* on its first invocation
Observe(s, ev) ==
  IF s.panic \/ s.observer.ev # ev THEN s
  ELSE Resumed(Reenter([s EXCEPT !.observer = NoObserver, !.reentered = s.observer.op], s.observer),
               s.ret, s.err)

\* publisher.Publish(item) of the tree view's event ev
Published(s, ev, item) ==
  Observe([s EXCEPT !.pub = Append(@, [ev |-> ev, item |-> item])], ev)

\* WndProc, TVN_SELCHANGED
WndProcSelChanged(s, h) ==
  Published([s EXCEPT !.currItem = Lookup(s.handle2Item, h)], "currentItemChanged", NoItem)

\* the position a new child of hParent takes: first, behind hInsertAfter, or last
InsertPos(n, hParent, hInsertAfter) ==
  IF hInsertAfter = TVI_FIRST THEN 0
  ELSE IF hInsertAfter \in Range(n.kids[hParent]) THEN IndexOf(n.kids[hParent], hInsertAfter)
  ELSE Len(n.kids[hParent])

NativeInsert(n, h, hParent, hInsertAfter, item, state) ==
  [n EXCEPT !.kids = Put(Put(n.kids, hParent,
                             InsertAt(n.kids[hParent], InsertPos(n, hParent, hInsertAfter), h)),
                         h, <<>>),
            !.par = Put(@, h, hParent),
            !.item = Put(@, h, item),
            !.chk = Put(@, h, state)]

\* a variant that leaves out TVIF_STATE: the new item shows the unchecked image
InsertItemStateless(s, hParent, hInsertAfter, item, state) ==
  IF Failing(s) \/ Handles \ Live(s.native) = {} \/ hParent \notin DOMAIN s.native.kids
  THEN Refused(s)
  ELSE [Called(s) EXCEPT
          !.ret = Min(Handles \ Live(s.native)),
          !.native = NativeInsert(@, Min(Handles \ Live(s.native)), hParent, hInsertAfter,
                                  item, FALSE)]

\* SendMessage(TVM_INSERTITEM): 0 on failure, else the new handle
TVM_INSERTITEM(s, hParent, hInsertAfter, item, state) ==
  IF Failing(s) \/ Handles \ Live(s.native) = {} \/ hParent \notin DOMAIN s.native.kids
  THEN Refused(s)
  ELSE [Called(s) EXCEPT
          !.ret = Min(Handles \ Live(s.native)),
          !.native = NativeInsert(@, Min(Handles \ Live(s.native)), hParent, hInsertAfter,
                                  item, state)]

\* the selection once h is deleted: unchanged, or from the deleted subtree to the
\* next sibling of h, else its parent, else its previous sibling, else none
NewSelection(n, h) ==
  LET sibs == n.kids[n.par[h]]
      i == IndexOf(sibs, h)
  IN IF n.sel \notin NativeSubtree(n, h) THEN n.sel
     ELSE IF i < Len(sibs) THEN sibs[i + 1]
     ELSE IF n.par[h] # TVI_ROOT THEN n.par[h]
     ELSE IF i > 1 THEN sibs[i - 1]
     ELSE 0

NativeDelete(n, h) ==
  LET gone == NativeSubtree(n, h)
  IN [kids |-> [k \in (DOMAIN n.kids) \ gone |->
                  IF k = n.par[h] THEN Without(n.kids[k], {h}) ELSE n.kids[k]],
      par |-> Drop(n.par, gone), item |-> Drop(n.item, gone),
      chk |-> Drop(n.chk, gone), sel |-> NewSelection(n, h)]

\* the control notifies TVN_SELCHANGED when a deletion moved the selection to
\* another item; whether it also does when the deletion left no item selected
\* (the handler then reads handle2Item[0]) differs between implementations of
\* the control: s.nullSel
NotifyMovedSelection(s, oldSel) ==
  IF s.native.sel # oldSel /\ (s.native.sel # 0 \/ s.nullSel)
  THEN WndProcSelChanged(s, s.native.sel)
  ELSE s

\* SendMessage(TVM_DELETEITEM, 0, h): h = 0 deletes every item
TVM_DELETEITEM(s, h) ==
  IF Failing(s) THEN Refused(s)
  ELSE IF h = 0
  THEN NotifyMovedSelection(
         [Called(s) EXCEPT !.ret = 1, !.native = NativeEmpty], s.native.sel)
  ELSE IF h \notin Live(s.native) THEN Refused(s)
  ELSE NotifyMovedSelection(
         [Called(s) EXCEPT !.ret = 1, !.native = NativeDelete(@, h)], s.native.sel)

\* SendMessage(TVM_SETITEM) with TVIF_STATE: sets the checkbox state image
TVM_SETITEM(s, h, state) ==
  IF Failing(s) \/ h \notin Live(s.native) THEN Refused(s)
  ELSE [Called(s) EXCEPT !.ret = 1, !.native.chk[h] = state]

\* SendMessage(TVM_SETITEM) with TVIF_TEXT and the image fields: the text and
\* image callbacks of h are set again
TVM_SETITEM_TEXT(s, h) ==
  IF Failing(s) \/ h \notin Live(s.native) THEN Refused(s)
  ELSE [Called(s) EXCEPT !.ret = 1]

\* SendMessage(TVM_GETITEMSTATE): the checkbox state image of h
TVM_GETITEMSTATE(s, h) == IF h \in Live(s.native) THEN s.native.chk[h] ELSE FALSE

\* ------------------------------------------------------------- realization
RECURSIVE insertItemAfter(_, _, _), insertChildrenFrom(_, _, _)

Register(s, item, hItem) ==
  [s EXCEPT !.item2Info = Put(@, item, [handle |-> hItem, child2Handle |-> EmptyMap]),
            !.handle2Item = Put(@, hItem, item)]

insertChildren(s, parent) == insertChildrenFrom(s, parent, ChildCount(s, parent) - 1)

\* insertItemAfter once insertChildren has returned
insertItemAfterChildren(s, hItem) ==
  IF s.panic THEN s
  ELSE IF s.err THEN Return(s, 0, TRUE)
  ELSE Return(s, hItem, FALSE)

\* insertItemAfter once TVM_INSERTITEM has returned
insertItemAfterSent(s, item) ==
  IF s.ret = 0 THEN Return(s, 0, TRUE)
  ELSE IF ~s.lazy
  THEN insertItemAfterChildren(insertChildren(Register(s, item, s.ret), item), s.ret)
  ELSE Return(Register(s, item, s.ret), s.ret, FALSE)

insertItemAfter(s, item, hInsertAfter) ==
  IF s.panic THEN s
  ELSE IF ParentOf(item) # NoItem /\ ~Realized(s, ParentOf(item))
  THEN Return(s, 0, TRUE)
  ELSE insertItemAfterSent(
         TVM_INSERTITEM(s, IF ParentOf(item) = NoItem THEN TVI_ROOT
                           ELSE s.item2Info[ParentOf(item)].handle,
                        hInsertAfter, item, s.checked[item]),
         item)

\* a variant that appends the item behind its siblings
insertItemLast(s, item) == insertItemAfter(s, item, 0)

insertItem(s, item) == insertItemAfter(s, item, TVI_FIRST)

\* insertChildren once insertItem has returned for the child at index i
insertChildrenInserted(s, parent, i) ==
  IF s.panic \/ s.err THEN s
  ELSE insertChildrenFrom(
         [s EXCEPT !.item2Info[parent].child2Handle = Put(@, ChildAt(s, parent, i), s.ret)],
         parent, i - 1)

\* the loop of insertChildren from index i down to 0
insertChildrenFrom(s, parent, i) ==
  IF s.panic THEN s
  ELSE IF i < 0 THEN Return(s, 0, FALSE)
  ELSE insertChildrenInserted(insertItem(s, ChildAt(s, parent, i)), parent, i)

RECURSIVE insertRootsFrom(_, _)

\* insertRoots once insertItem has returned for the root at index i
insertRootsInserted(s, i) ==
  IF s.panic \/ s.err THEN s ELSE insertRootsFrom(s, i - 1)

\* the loop of insertRoots from index i down to 0
insertRootsFrom(s, i) ==
  IF s.panic THEN s
  ELSE IF i < 0 THEN Return(s, 0, FALSE)
  ELSE insertRootsInserted(insertItem(s, ChildAt(s, NoItem, i)), i)

insertRoots(s) == insertRootsFrom(s, ChildCount(s, NoItem) - 1)

\* clearItems once TVM_DELETEITEM has returned
clearItemsSent(s) ==
  IF s.ret = 0 THEN Return(s, 0, TRUE)
  ELSE Return([s EXCEPT !.item2Info = EmptyMap, !.handle2Item = EmptyMap], 0, FALSE)

\* a variant that leaves the control and the registries as they are
clearItemsSkipped(s) == Return(s, 0, FALSE)

clearItems(s) == clearItemsSent(TVM_DELETEITEM(s, 0))

\* resetItems once clearItems has returned
resetItemsCleared(s) ==
  IF s.err THEN s
  ELSE IF ~s.model THEN Return(s, 0, FALSE)
  ELSE insertRoots(s)

resetItems(s) == Deferred(resetItemsCleared(clearItems(SetSuspended(s, TRUE))))

\* ------------------------------------------------------------------ removal
RECURSIVE removeItem(_, _), removeDescendantsLoop(_, _, _)

\* tv.item2Info[parent].child2Handle dereferences a nil *treeViewItemInfo when
\* parent has no registry entry
removeDescendants(s, parent) ==
  IF s.panic THEN s
  ELSE IF ~Realized(s, parent) THEN [s EXCEPT !.panic = TRUE]
  ELSE removeDescendantsLoop(s, parent, {})

Unlink(i2i, item) ==
  IF ParentOf(item) \in DOMAIN i2i
  THEN [i2i EXCEPT ![ParentOf(item)].child2Handle = Drop(@, {item})]
  ELSE i2i

\* a variant that deletes the entries of item whatever TVM_DELETEITEM returned
removeItemForgetting(s, item, handle) ==
  Return([s EXCEPT !.item2Info = Drop(Unlink(@, item), {item}),
                   !.handle2Item = Drop(@, {handle})], 0, s.ret = 0)

\* removeItem once TVM_DELETEITEM has returned for the handle of item
removeItemSent(s, item, handle) ==
  IF s.ret = 0 THEN Return(s, 0, TRUE)
  ELSE Return([s EXCEPT !.item2Info = Drop(Unlink(@, item), {item}),
                        !.handle2Item = Drop(@, {handle})], 0, FALSE)

\* removeItem once removeDescendants has returned
removeItemDescended(s, item) ==
  IF s.panic \/ s.err THEN s
  ELSE IF ~Realized(s, item) THEN Return(s, 0, TRUE)
  ELSE removeItemSent(TVM_DELETEITEM(s, s.item2Info[item].handle), item,
                      s.item2Info[item].handle)

removeItem(s, item) == removeItemDescended(removeDescendants(s, item), item)

\* removeDescendants once removeItem has returned for item
removeDescendantsRemoved(s, parent, seen) ==
  IF s.panic \/ s.err THEN s ELSE removeDescendantsLoop(s, parent, seen)

\* the keys of parent's child map that the range loop has yet to produce
LeftToRange(s, parent, seen) ==
  IF Realized(s, parent) THEN (DOMAIN s.item2Info[parent].child2Handle) \ seen ELSE {}

\* the key the range loop produces next: Go leaves the order open, and s.rev
\* chooses between ascending and descending item order, which are all the orders
\* of a map of at most two keys
NextInRange(s, parent, seen) ==
  IF s.rev THEN Max(LeftToRange(s, parent, seen)) ELSE Min(LeftToRange(s, parent, seen))

\* the range loop of removeDescendants: `seen` are the keys already produced; keys
\* deleted before they are reached are not produced
removeDescendantsLoop(s, parent, seen) ==
  IF s.panic THEN s
  ELSE IF LeftToRange(s, parent, seen) = {} THEN Return(s, 0, FALSE)
  ELSE removeDescendantsRemoved(removeItem(s, NextInRange(s, parent, seen)), parent,
                                seen \cup {NextInRange(s, parent, seen)})

\* -------------------------------------------------------------- check state
Checked(s, item) ==
  IF item = NoItem \/ ~Realized(s, item) THEN FALSE
  ELSE TVM_GETITEMSTATE(s, s.item2Info[item].handle)

\* SetChecked once TVM_SETITEM has returned
SetCheckedSent(s) == IF s.ret = 0 THEN Return(s, 0, TRUE) ELSE Return(s, 0, FALSE)

SetChecked(s, item, state) ==
  IF s.panic THEN s
  ELSE IF item = NoItem \/ ~Realized(s, item) THEN Return(s, 0, TRUE)
  ELSE SetCheckedSent(TVM_SETITEM(s, s.item2Info[item].handle, state))

RECURSIVE applyCheckStateRecursive(_, _), applyCheckStateFrom(_, _, _)

\* the loop of applyCheckStateRecursive from child index i upwards
applyCheckStateFrom(s, item, i) ==
  IF s.panic \/ i >= ChildCount(s, item) THEN s
  ELSE applyCheckStateFrom(
         IF Realized(s, ChildAt(s, item, i))
         THEN applyCheckStateRecursive(s, ChildAt(s, item, i))
         ELSE s,
         item, i + 1)

\* a nil item panics at item.ChildCount()
applyCheckStateRecursive(s, item) ==
  IF s.panic THEN s
  ELSE IF item = NoItem THEN [s EXCEPT !.panic = TRUE]
  ELSE applyCheckStateFrom(SetChecked(s, item, s.checked[item]), item, 0)

RECURSIVE setChildrenCheckedFrom(_, _, _, _)

setChildrenChecked(s, parent, state) == setChildrenCheckedFrom(s, parent, state, 0)

\* a variant that publishes item-checked for every child it pushes the state to
setChildrenCheckedSetPublishing(s, child, state) ==
  IF ~s.err
  THEN setChildrenChecked([s EXCEPT !.pub = Append(@, [ev |-> "itemChecked", item |-> child])],
                          child, state)
  ELSE s

\* setChildrenChecked once SetChecked has returned for child
setChildrenCheckedSet(s, child, state) ==
  IF ~s.err THEN setChildrenChecked(s, child, state) ELSE s

\* the loop of setChildrenChecked from child index i upwards
setChildrenCheckedFrom(s, parent, state, i) ==
  IF s.panic \/ i >= ChildCount(s, parent) THEN s
  ELSE setChildrenCheckedFrom(
         setChildrenCheckedSet(
           SetChecked([s EXCEPT !.checked[ChildAt(s, parent, i)] = state],
                      ChildAt(s, parent, i), state),
           ChildAt(s, parent, i), state),
         parent, state, i + 1)

\* ---------------------------------------------------- native notifications
\* WndProc, TVN_ITEMEXPANDING with TVE_EXPAND; len(info.child2Handle) dereferences
\* nil when the item of h has no registry entry
WndProcItemExpanding(s, h) ==
  IF s.panic \/ ~s.lazy THEN s
  ELSE IF ~Realized(s, Lookup(s.handle2Item, h)) THEN [s EXCEPT !.panic = TRUE]
  ELSE IF DOMAIN s.item2Info[s.handle2Item[h]].child2Handle = {}
  THEN applyCheckStateRecursive(insertChildren(s, s.handle2Item[h]), s.handle2Item[h])
  ELSE s

\* WndProc, TVN_ITEMEXPANDED with TVE_EXPAND (expand) or TVE_COLLAPSE
WndProcItemExpanded(s, h, expand) ==
  IF s.panic THEN s
  ELSE IF expand
  THEN applyCheckStateRecursive(
         Published(s, "expandedChanged", Lookup(s.handle2Item, h)),
         Lookup(s.handle2Item, h))
  ELSE Published(s, "expandedChanged", Lookup(s.handle2Item, h))

\* the control flips the state image of h once NM_CLICK has returned
NativeToggle(s, h) ==
  IF s.panic \/ h \notin Live(s.native) THEN s
  ELSE Return([s EXCEPT !.native.chk[h] = ~@], 0, FALSE)

\* NM_CLICK once setChildrenChecked has returned
WndProcClickPublish(s, item) ==
  IF s.panic THEN s
  ELSE Published(s, "itemChecked", item)

\* WndProc, NM_CLICK with the hit test on the state icon of h
WndProcClick(s, h) ==
  IF h \in DOMAIN s.handle2Item
  THEN WndProcClickPublish(
         setChildrenChecked(
           [s EXCEPT !.checked[s.handle2Item[h]] = ~Checked(s, s.handle2Item[h])],
           s.handle2Item[h], ~Checked(s, s.handle2Item[h])),
         s.handle2Item[h])
  ELSE s

\* SendMessage(TVM_SELECTITEM, TVGN_CARET, h)
TVM_SELECTITEM(s, h) ==
  IF Failing(s) \/ h \notin Live(s.native) THEN Refused(s)
  ELSE IF h = s.native.sel THEN [Called(s) EXCEPT !.ret = 1]
  ELSE WndProcSelChanged([Called(s) EXCEPT !.ret = 1, !.native.sel = h], h)

\* TVM_EXPAND once the notifications have returned
Expanded(s) == IF s.panic THEN s ELSE [s EXCEPT !.ret = 1]

\* SendMessage(TVM_EXPAND, action, h): the control notifies TVN_ITEMEXPANDING
\* (when expanding) and then TVN_ITEMEXPANDED
TVM_EXPAND(s, expand, h) ==
  IF Failing(s) \/ h \notin Live(s.native) THEN Refused(s)
  ELSE Expanded(WndProcItemExpanded(
                  IF expand THEN WndProcItemExpanding(Called(s), h) ELSE Called(s),
                  h, expand))

\* ------------------------------------------------------ ensure, select, expand
\* the first loop of ensureItemAndAncestorsInserted: the chain of ancestors up to
\* the first realized one, nearest first; <<NoItem>> stands for the error return
RECURSIVE Hierarchy(_, _)
Hierarchy(s, item) ==
  IF Realized(s, item) THEN <<>>
  ELSE IF ParentOf(item) = NoItem THEN <<NoItem>>
  ELSE IF Hierarchy(s, ParentOf(item)) = <<NoItem>> THEN <<NoItem>>
  ELSE <<ParentOf(item)>> \o Hierarchy(s, ParentOf(item))

RECURSIVE ensureFrom(_, _, _)

\* the second loop once insertChildren has returned for hierarchy[i]
ensureInserted(s, hierarchy, i) ==
  IF s.panic \/ s.err THEN s ELSE ensureFrom(s, hierarchy, i - 1)

\* the second loop of ensureItemAndAncestorsInserted from hierarchy[i] down
ensureFrom(s, hierarchy, i) ==
  IF s.panic THEN s
  ELSE IF i < 1 THEN Return(s, 0, FALSE)
  ELSE ensureInserted(insertChildren(s, hierarchy[i]), hierarchy, i)

\* ensureItemAndAncestorsInserted inside its suspend bracket
ensureSuspended(s, item) ==
  IF Hierarchy(s, item) = <<NoItem>> THEN Return(s, 0, TRUE)
  ELSE ensureFrom(s, Hierarchy(s, item), Len(Hierarchy(s, item)))

ensureItemAndAncestorsInserted(s, item) ==
  IF item = NoItem THEN Return(s, 0, TRUE)
  ELSE Deferred(ensureSuspended(SetSuspended(s, TRUE), item))

handleForItem(s, item) ==
  IF item # NoItem /\ Realized(s, item)
  THEN Return(s, s.item2Info[item].handle, FALSE)
  ELSE Return(s, 0, TRUE)

\* SetCurrentItem once TVM_SELECTITEM has returned
setCurrentItemSent(s, item) ==
  IF s.panic THEN s
  ELSE IF s.ret = 0 THEN Return(s, 0, TRUE)
  ELSE Return([s EXCEPT !.currItem = item], 0, FALSE)

\* SetCurrentItem once handleForItem has returned
setCurrentItemHandle(s, item) ==
  IF s.err THEN s ELSE setCurrentItemSent(TVM_SELECTITEM(s, s.ret), item)

\* SetCurrentItem once ensureItemAndAncestorsInserted has returned
setCurrentItemEnsured(s, item) ==
  IF s.panic \/ s.err THEN s ELSE setCurrentItemHandle(handleForItem(s, item), item)

setCurrentItem(s, item) ==
  IF item = s.currItem THEN Return(s, 0, FALSE)
  ELSE setCurrentItemEnsured(
         IF item # NoItem THEN ensureItemAndAncestorsInserted(s, item) ELSE s, item)

\* SetExpanded once TVM_EXPAND has returned
setExpandedSent(s) ==
  IF s.panic THEN s
  ELSE IF s.ret = 0 THEN Return(s, 0, TRUE)
  ELSE Return(s, 0, FALSE)

\* SetExpanded once ensureItemAndAncestorsInserted has returned
setExpandedEnsured(s, item, expanded) ==
  IF s.panic \/ s.err THEN s
  ELSE IF ~Realized(s, item) THEN Return(s, 0, TRUE)
  ELSE setExpandedSent(TVM_EXPAND(s, expanded, s.item2Info[item].handle))

setExpanded(s, item, expanded) ==
  setExpandedEnsured(IF expanded THEN ensureItemAndAncestorsInserted(s, item) ELSE s,
                     item, expanded)

\* ------------------------------------------- ensure-visible and bulk operations
\* the native ancestors of h, outermost first
RECURSIVE NativePath(_, _)
NativePath(n, h) ==
  IF n.par[h] = TVI_ROOT THEN <<>> ELSE Append(NativePath(n, n.par[h]), n.par[h])

\* the control expands the native items path[i], path[i+1], ... in turn, notifying
\* TVN_ITEMEXPANDING and TVN_ITEMEXPANDED for each
RECURSIVE ExpandPath(_, _, _)
ExpandPath(s, path, i) ==
  IF s.panic \/ i > Len(path) THEN s
  ELSE ExpandPath(WndProcItemExpanded(WndProcItemExpanding(s, path[i]), path[i], TRUE),
                  path, i + 1)

\* SendMessage(TVM_ENSUREVISIBLE, 0, h): when the ancestors of h are collapsed the
\* control expands them, outermost first
TVM_ENSUREVISIBLE(s, h, collapsed) ==
  IF Failing(s) \/ h \notin Live(s.native) THEN Refused(s)
  ELSE IF collapsed THEN ExpandPath(Called(s), NativePath(s.native, h), 1)
  ELSE Called(s)

\* EnsureVisible once TVM_ENSUREVISIBLE has returned: its result is not looked at
ensureVisibleSent(s) == IF s.panic THEN s ELSE Return(s, 0, FALSE)

\* EnsureVisible once handleForItem has returned
ensureVisibleHandle(s, collapsed) ==
  IF s.err THEN s ELSE ensureVisibleSent(TVM_ENSUREVISIBLE(s, s.ret, collapsed))

ensureVisible(s, item, collapsed) == ensureVisibleHandle(handleForItem(s, item), collapsed)

\* the loop of ApplyRootCheckStates from root index i upwards; the error of
\* SetChecked is dropped
RECURSIVE applyRootCheckStatesFrom(_, _)
applyRootCheckStatesFrom(s, i) ==
  IF s.panic \/ i >= ChildCount(s, NoItem) THEN s
  ELSE applyRootCheckStatesFrom(
         SetChecked(s, ChildAt(s, NoItem, i), s.checked[ChildAt(s, NoItem, i)]), i + 1)

\* ApplyRootCheckStates returns nothing
applyRootCheckStates(s) ==
  IF ~s.model THEN s
  ELSE Deferred(Return(applyRootCheckStatesFrom(SetSuspended(s, TRUE), 0), 0, FALSE))

RECURSIVE expandChildren(_, _), expandChildrenFrom(_, _, _), expandGrandChildrenFrom(_, _, _)

\* a variant that does not descend into the grandchildren
expandGrandChildrenSkipped(s, child, j) == s

\* the inner loop of expandChildren over the children of child from index j upwards
expandGrandChildrenFrom(s, child, j) ==
  IF s.panic \/ j >= ChildCount(s, child) THEN s
  ELSE expandGrandChildrenFrom(expandChildren(s, ChildAt(s, child, j)), child, j + 1)

\* the loop of expandChildren over the children of item from index i upwards; the
\* error of SetExpanded is dropped
expandChildrenFrom(s, item, i) ==
  IF s.panic \/ i >= ChildCount(s, item) THEN s
  ELSE expandChildrenFrom(
         expandGrandChildrenFrom(setExpanded(s, ChildAt(s, item, i), TRUE),
                                 ChildAt(s, item, i), 0),
         item, i + 1)

expandChildren(s, item) ==
  IF s.panic \/ ~s.model THEN s
  ELSE expandChildrenFrom(setExpanded(s, item, TRUE), item, 0)

\* the loop of ExpandAll from root index i upwards
RECURSIVE expandAllFrom(_, _)
expandAllFrom(s, i) ==
  IF s.panic \/ i >= ChildCount(s, NoItem) THEN s
  ELSE expandAllFrom(expandChildren(s, ChildAt(s, NoItem, i)), i + 1)

\* ExpandAll returns nothing
expandAll(s) ==
  IF ~s.model THEN s
  ELSE Deferred(Return(expandAllFrom(SetSuspended(s, TRUE), 0), 0, FALSE))

\* ------------------------------------------------- the model event handlers
\* the ItemsReset handler once removeDescendants has returned
onItemsResetRemoved(s, parent) ==
  IF s.panic \/ s.err THEN s ELSE insertChildren(s, parent)

\* the handler SetModel attaches to model.ItemsReset()
onItemsReset(s, parent) ==
  IF parent = NoItem THEN resetItems(s)
  ELSE IF Realized(s, parent)
  THEN Deferred(onItemsResetRemoved(removeDescendants(SetSuspended(s, TRUE), parent), parent))
  ELSE Return(s, 0, FALSE)

\* the loop of the ItemInserted handler from index i down to 0; h is hInsertAfter.
\* tv.item2Info[parent.ChildAt(i-1)].handle dereferences nil when the preceding
\* sibling has no registry entry
\* a variant that anchors every inserted item at the first position
insertAnchorFirst(s, item, i, h) == [h |-> TVI_FIRST, panic |-> FALSE]

RECURSIVE insertAnchor(_, _, _, _)
insertAnchor(s, item, i, h) ==
  IF i < 0 THEN [h |-> h, panic |-> FALSE]
  ELSE IF ChildAt(s, ParentOf(item), i) # item THEN insertAnchor(s, item, i - 1, h)
  ELSE IF i = 0 THEN insertAnchor(s, item, i - 1, TVI_FIRST)
  ELSE IF Realized(s, ChildAt(s, ParentOf(item), i - 1))
  THEN insertAnchor(s, item, i - 1, s.item2Info[ChildAt(s, ParentOf(item), i - 1)].handle)
  ELSE [h |-> h, panic |-> TRUE]

\* the ItemInserted handler once hInsertAfter is computed
onItemInsertedAnchored(s, item, anchor) ==
  IF anchor.panic THEN [s EXCEPT !.panic = TRUE]
  ELSE insertItemAfter(s, item, anchor.h)

\* the ItemInserted handler inside its suspend bracket; parent.ChildCount()
\* panics on the nil parent of a root item
onItemInsertedSuspended(s, item) ==
  IF ParentOf(item) = NoItem THEN [s EXCEPT !.panic = TRUE]
  ELSE onItemInsertedAnchored(s, item,
         insertAnchor(s, item, ChildCount(s, ParentOf(item)) - 1, 0))

\* the handler SetModel attaches to model.ItemInserted()
onItemInserted(s, item) == Deferred(onItemInsertedSuspended(SetSuspended(s, TRUE), item))

\* the handler SetModel attaches to model.ItemRemoved()
onItemRemoved(s, item) == removeItem(s, item)

\* updateItem once TVM_SETITEM has returned
updateItemSent(s) == IF s.ret = 0 THEN Return(s, 0, TRUE) ELSE Return(s, 0, FALSE)

updateItem(s, item) == updateItemSent(TVM_SETITEM_TEXT(s, s.item2Info[item].handle))

\* the handler SetModel attaches to model.ItemChanged()
onItemChanged(s, item) ==
  IF item = NoItem \/ ~Realized(s, item) THEN Return(s, 0, FALSE)
  ELSE updateItem(s, item)

\* the ItemChecked handler once SetChecked has returned
onItemCheckedSet(s, item) ==
  IF s.panic \/ s.err THEN s ELSE Published(s, "itemChecked", item)

\* the handler SetModel attaches to model.ItemChecked()
onItemChecked(s, item) == onItemCheckedSet(SetChecked(s, item, s.checked[item]), item)

\* the application's handler changes the model, and the model publishes the
\* change to the engine's handler before the application's handler returns
Reenter(s, o) ==
  IF o.op = "insert"
  THEN IF /\ o.item \notin Range(s.kids[ParentOf(o.item)])
          /\ ParentOf(o.item) = NoItem \/ InModel(s.kids, ParentOf(o.item))
       THEN onItemInserted([s EXCEPT !.kids[ParentOf(o.item)] = InsertAt(@, 0, o.item)], o.item)
       ELSE s
  ELSE IF o.op = "remove"
  THEN IF InModel(s.kids, o.item)
       THEN onItemRemoved([s EXCEPT !.kids[ParentOf(o.item)] = Without(@, {o.item})], o.item)
       ELSE s
  ELSE IF o.op = "update" THEN onItemChanged(s, o.item)
  ELSE IF o.op = "select"
  THEN IF InModel(s.kids, o.item) THEN setCurrentItem(s, o.item) ELSE s
  ELSE s

\* ------------------------------------------------------------------ frames
Frame(kids, failAt, rev) ==
  [item2Info |-> item2Info, handle2Item |-> handle2Item, currItem |-> currItem,
   native |-> native, checked |-> checked, kids |-> kids, model |-> model,
   lazy |-> lazyPopulation, pub |-> <<>>, calls |-> 0, failAt |-> failAt,
   rev |-> rev, nullSel |-> FALSE, observer |-> NoObserver, suspended |-> suspended, brackets |-> 0, handled |-> 0,
   reentered |-> "none",
   ret |-> 0, err |-> FALSE, panic |-> FALSE,
   failed |-> FALSE, refusedAt |-> 0]

\* the frame of an operation that deletes native items
DeletingFrame(kids, failAt, rev, nullSel) ==
  [Frame(kids, failAt, rev) EXCEPT !.nullSel = nullSel]

\* whether the control notifies a selection that ends on no item: a choice only
\* while an item is selected
NullSelChoices == IF native.sel # 0 THEN BOOLEAN ELSE {FALSE}

\* the operation is a full reset - SetModel or a global items-reset - that
\* returned nil, follows a full reset that returned nil, and found the model as
\* that one left it
RepeatedReset(s, op, item) ==
  /\ op = "SetModel" \/ (op = "ItemsReset" /\ item = NoItem)
  /\ ~s.err /\ ~s.panic
  /\ lastOp.op = "SetModel" \/ (lastOp.op = "ItemsReset" /\ lastOp.item = NoItem)
  /\ ~lastOp.err /\ ~lastOp.panic
  /\ s.model = model /\ s.kids = children

\* Publish of the event k of the model m invokes an engine handler
Subscribed(m, k) == m # NoModel /\ SlotsOf(modelEvents, m, k, TreeViewHandler) # {}

\* the engine's handler of a model event is invoked
Handling(s) == [s EXCEPT !.handled = @ + 1]

\* the frame of an operation during which the handler o of the application is
\* attached
Observed(s, o) == [s EXCEPT !.observer = o]

\* the handler SetModel attached to the event k
EngineHandler(s, k, item) ==
  IF k = "itemsReset" THEN onItemsReset(s, item)
  ELSE IF k = "itemChanged" THEN onItemChanged(s, item)
  ELSE IF k = "itemInserted" THEN onItemInserted(s, item)
  ELSE IF k = "itemRemoved" THEN onItemRemoved(s, item)
  ELSE onItemChecked(s, item)

CommitTree(s, op, item) ==
  /\ item2Info' = s.item2Info
  /\ handle2Item' = s.handle2Item
  /\ currItem' = s.currItem
  /\ native' = s.native
  /\ checked' = s.checked
  /\ children' = s.kids
  /\ model' = s.model
  /\ lazyPopulation' = s.lazy
  /\ lastOp' = [op |-> op, item |-> item, err |-> s.err, panic |-> s.panic,
                failed |-> s.failed, calls |-> s.calls, refusedAt |-> s.refusedAt,
                pub |-> s.pub, repeat |-> RepeatedReset(s, op, item),
                brackets |-> s.brackets, handled |-> s.handled,
                reentered |-> s.reentered]
  /\ suspended' = s.suspended
  /\ left' = left - 1
  /\ UNCHANGED <<modelLazy, eventVars, otherVars>>

Commit(s, op, item) ==
  /\ CommitTree(s, op, item)
  /\ UNCHANGED <<tvModel, modelEvents, handlerHandles>>

\* a panic ends the program
Running == ~lastOp.panic /\ left > 0

\* the orders a range loop over a child map can take: one when no child map has
\* two keys
RangeOrders ==
  IF \E x \in DOMAIN item2Info : Cardinality(DOMAIN item2Info[x].child2Handle) > 1
  THEN BOOLEAN ELSE {FALSE}

\* ----------------------------------------------------------------- actions
\* tv.SetModel(m): m is a model or nil (NoModel)
SetModel(m, failAt, nullSel) ==
  /\ Running
  /\ modelEvents' = AttachedAll(DetachedAll(modelEvents, tvModel, handlerHandles), m)
  /\ handlerHandles' =
       AttachedHandles(DetachedAll(modelEvents, tvModel, handlerHandles), m, handlerHandles)
  /\ tvModel' = m
  /\ CommitTree(resetItems([DeletingFrame(children, failAt, FALSE, nullSel) EXCEPT
                              !.model = (m # NoModel),
                              !.lazy = IF m # NoModel THEN modelLazy ELSE @]),
                "SetModel", NoItem)

\* another subscriber attaches a handler to the event k of the model m
SubscriberAttach(m, k) ==
  /\ Running
  /\ modelEvents' = [modelEvents EXCEPT ![m][k] = ModelEventAttach(@, SubscriberHandler)]
  /\ CommitTree(Frame(children, 0, FALSE), "SubscriberAttach", NoItem)
  /\ UNCHANGED <<tvModel, handlerHandles>>

\* another subscriber detaches the handler it attached to the event k of the
\* model m, with the handle Attach gave it
SubscriberDetach(m, k, handle) ==
  /\ Running
  /\ handle \in SlotsOf(modelEvents, m, k, SubscriberHandler)
  /\ modelEvents' = [modelEvents EXCEPT ![m][k] = ModelEventDetach(@, handle)]
  /\ CommitTree(Frame(children, 0, FALSE), "SubscriberDetach", NoItem)
  /\ UNCHANGED <<tvModel, handlerHandles>>

\* a model that is not the tree view's model publishes its event k for item
\* (items-reset also for nil)
DetachedModelEvent(m, k, item, failAt) ==
  /\ Running
  /\ m # tvModel
  /\ k # "itemsReset" => item # NoItem
  /\ Commit(IF Subscribed(m, k)
            THEN EngineHandler(Handling(Frame(children, failAt, FALSE)), k, item)
            ELSE Frame(children, failAt, FALSE),
            "DetachedModelEvent", item)

\* the model replaces the child list of p (p = 0: the root list) by q and
\* publishes items-reset for p
ItemsReset(p, q, failAt, rev, nullSel) ==
  /\ Running /\ model /\ Subscribed(tvModel, "itemsReset")
  /\ p = NoItem \/ InModel(children, p)
  /\ Commit(onItemsReset(
              Handling(DeletingFrame([children EXCEPT ![p] = q], failAt, rev, nullSel)), p),
            "ItemsReset", p)

\* the model inserts x at index i of its parent's child list and publishes
\* item-inserted for x
ItemInserted(x, i, failAt) ==
  /\ Running /\ model /\ Subscribed(tvModel, "itemInserted")
  /\ x \notin Range(children[ParentOf(x)])
  /\ ParentOf(x) = NoItem \/ InModel(children, ParentOf(x))
  /\ i \in 0..Len(children[ParentOf(x)])
  /\ Commit(onItemInserted(
              Handling(Frame([children EXCEPT ![ParentOf(x)] = InsertAt(@, i, x)],
                             failAt, FALSE)), x),
            "ItemInserted", x)

\* the model removes x from its parent's child list and publishes item-removed
ItemRemoved(x, failAt, rev, nullSel, o) ==
  /\ Running /\ model /\ Subscribed(tvModel, "itemRemoved")
  /\ InModel(children, x)
  /\ Commit(onItemRemoved(
              Observed(Handling(DeletingFrame([children EXCEPT ![ParentOf(x)] = Without(@, {x})],
                                              failAt, rev, nullSel)), o), x),
            "ItemRemoved", x)

\* the user expands the native item h: TVN_ITEMEXPANDING, then TVN_ITEMEXPANDED
ItemExpanding(h, failAt, o) ==
  /\ Running
  /\ h \in Live(native)
  /\ Commit(WndProcItemExpanded(WndProcItemExpanding(
                                  Observed(Frame(children, failAt, FALSE), o), h),
                                h, TRUE),
            "ItemExpanding", Lookup(handle2Item, h))

\* tv.SetCurrentItem(item)
SetCurrentItem(item, failAt, o) ==
  /\ Running
  /\ Commit(setCurrentItem(Observed(Frame(children, failAt, FALSE), o), item),
            "SetCurrentItem", item)

\* tv.SetExpanded(item, expanded); lastOp tells expanding from collapsing
SetExpanded(item, expanded, failAt) ==
  /\ Running
  /\ Commit(setExpanded(Frame(children, failAt, FALSE), item, expanded),
            IF expanded THEN "SetExpanded" ELSE "SetCollapsed", item)

\* the user clicks the checkbox of the native item h: NM_CLICK
Click(h, o) ==
  /\ Running
  /\ h \in Live(native)
  /\ Commit(NativeToggle(WndProcClick(Observed(Frame(children, 0, FALSE), o), h), h),
            "Click", Lookup(handle2Item, h))

\* tv.EnsureVisible(item); collapsed: the native ancestors of the item are collapsed
EnsureVisible(item, collapsed, failAt) ==
  /\ Running
  /\ Commit(ensureVisible(Frame(children, failAt, FALSE), item, collapsed),
            "EnsureVisible", item)

\* tv.ApplyRootCheckStates()
ApplyRootCheckStates(failAt) ==
  /\ Running
  /\ Commit(applyRootCheckStates(Frame(children, failAt, FALSE)),
            "ApplyRootCheckStates", NoItem)

\* tv.ExpandAll()
ExpandAll(failAt) ==
  /\ Running
  /\ Commit(expandAll(Frame(children, failAt, FALSE)), "ExpandAll", NoItem)

\* the application sets the check flag of the model item x (x.SetChecked(b))
\* without publishing item-checked
ItemSetChecked(x, b) ==
  /\ Running /\ model
  /\ checked[x] # b
  /\ Commit([Frame(children, 0, FALSE) EXCEPT !.checked[x] = b], "ItemSetChecked", x)

\* ------------------------------------------------------- the event at work
\* Publish(arg) at the point its range loop starts.  A Publish call under way
\* is a record of the slice header the range loop took (n slots;
\* shared: its backing array is still the one of e.handlers, else frozen holds
\* what the array held when append left it), the index i, the slot copy the
\* loop body is invoking (running), and what the pass did so far
\* a variant whose loop leaves out the last slot
NewPassShort(arg) ==
  [n |-> Max({0, Len(handlers) - 1}), i |-> 0, arg |-> arg,
   running |-> Slot(NilHandler, FALSE), shared |-> TRUE, frozen |-> <<>>,
   start |-> handlers, invoked |-> <<>>, quiet |-> TRUE]

NewPass(arg) ==
  [n |-> Len(handlers), i |-> 0, arg |-> arg, running |-> Slot(NilHandler, FALSE),
   shared |-> TRUE, frozen |-> <<>>, start |-> handlers, invoked |-> <<>>,
   quiet |-> TRUE]

Top == passes[Len(passes)]

\* code of the application runs: outside every Publish, or in the handler the
\* innermost pass is invoking
AppRuns == IF passes = <<>> THEN TRUE ELSE Top.running.handler # NilHandler

\* the backing array a pass ranges over
View(p) == IF p.shared THEN handlers ELSE p.frozen

\* the indices from p.i on at which the loop of p finds a handler
LiveAhead(p) == {i \in p.i..p.n - 1 : View(p)[i + 1].handler # NilHandler}

\* append moved e.handlers to a new array: the passes under way keep the old one
Frozen(ps) ==
  [k \in DOMAIN ps |->
     IF ps[k].shared THEN [ps[k] EXCEPT !.shared = FALSE, !.frozen = handlers] ELSE ps[k]]

\* the passes in ks saw the handler list change under them
Disturbed(ps, ks) == [k \in DOMAIN ps |-> IF k \in ks THEN [ps[k] EXCEPT !.quiet = FALSE] ELSE ps[k]]

Registered(once) ==
  Append(registrations, [handle |-> AttachIndex(handlers), once |-> once,
                         detached |-> FALSE, calls |-> 0])

\* application code calls e.Attach(handler) with a handler not attached before
EventAttach ==
  /\ AppRuns /\ Len(registrations) < MaxAttach
  /\ handlers' = Attach(handlers, Len(registrations) + 1)
  /\ capacity' = IF Reallocates(handlers, capacity) THEN GrowCap(capacity) ELSE capacity
  /\ passes' = Disturbed(IF Reallocates(handlers, capacity) THEN Frozen(passes) ELSE passes,
                         DOMAIN passes)
  /\ registrations' = Registered(FALSE)
  /\ lastCall' = [op |-> "Attach", handler |-> Len(registrations) + 1,
                  handle |-> AttachIndex(handlers)]
  /\ UNCHANGED <<lastPass, published, treeVars, otherVars>>

\* application code calls e.Once(handler) with a handler not attached before
EventOnce ==
  /\ AppRuns /\ Len(registrations) < MaxAttach
  /\ handlers' = Once(handlers, Len(registrations) + 1)
  /\ capacity' = IF Reallocates(handlers, capacity) THEN GrowCap(capacity) ELSE capacity
  /\ passes' = Disturbed(IF Reallocates(handlers, capacity) THEN Frozen(passes) ELSE passes,
                         DOMAIN passes)
  /\ registrations' = Registered(TRUE)
  /\ lastCall' = [op |-> "Once", handler |-> Len(registrations) + 1,
                  handle |-> AttachIndex(handlers)]
  /\ UNCHANGED <<lastPass, published, treeVars, otherVars>>

\* application code calls e.Detach(handle) with the handle Attach gave it for
\* the handler h, once
EventDetach(h) ==
  /\ AppRuns
  /\ h \in DOMAIN registrations
  /\ ~registrations[h].once /\ ~registrations[h].detached
  /\ handlers' = Detach(handlers, registrations[h].handle)
  /\ passes' = Disturbed(passes, DOMAIN passes)
  /\ registrations' = [registrations EXCEPT ![h].detached = TRUE]
  /\ lastCall' = [op |-> "Detach", handler |-> h, handle |-> registrations[h].handle]
  /\ UNCHANGED <<capacity, lastPass, published, treeVars, otherVars>>

\* application code calls publisher.Publish(arg): the range loop takes the slice
EventPublish(arg) ==
  /\ AppRuns /\ published < MaxPublish /\ Len(passes) < MaxDepth
  /\ passes' = Append(passes, NewPass(arg))
  /\ published' = published + 1
  /\ lastCall' = [op |-> "Publish", handler |-> NilHandler, handle |-> 0]
  /\ UNCHANGED <<handlers, capacity, registrations, lastPass, treeVars, otherVars>>

\* the loop of the innermost pass reaches the next slot that holds a handler
\* and calls it
PublishInvoke ==
  /\ passes # <<>> /\ Top.running.handler = NilHandler
  /\ LiveAhead(Top) # {}
  /\ passes' = [passes EXCEPT ![Len(passes)] =
                  [@ EXCEPT !.i = Min(LiveAhead(Top)),
                            !.running = View(Top)[Min(LiveAhead(Top)) + 1],
                            !.invoked = Append(@, [slot |-> Min(LiveAhead(Top)),
                                                   handler |-> View(Top)[Min(LiveAhead(Top)) + 1].handler,
                                                   arg |-> Top.arg])]]
  /\ registrations' =
       [registrations EXCEPT ![View(Top)[Min(LiveAhead(Top)) + 1].handler].calls = @ + 1]
  /\ lastCall' = [op |-> "Invoke", handler |-> View(Top)[Min(LiveAhead(Top)) + 1].handler,
                  handle |-> Min(LiveAhead(Top))]
  /\ UNCHANGED <<handlers, capacity, lastPass, published, treeVars, otherVars>>

\* the handler returns to the loop, which detaches it if its slot copy says once
HandlerReturn ==
  /\ passes # <<>> /\ Top.running.handler # NilHandler
  /\ handlers' = IF Top.running.once THEN Detach(handlers, Top.i) ELSE handlers
  /\ passes' = [Disturbed(passes, IF Top.running.once THEN 1..Len(passes) - 1 ELSE {})
                  EXCEPT ![Len(passes)] =
                    [@ EXCEPT !.i = @ + 1, !.running = Slot(NilHandler, FALSE)]]
  /\ lastCall' = [op |-> "Return", handler |-> Top.running.handler, handle |-> Top.i]
  /\ UNCHANGED <<capacity, registrations, lastPass, published, treeVars, otherVars>>

\* the loop of the innermost pass finds no further handler: Publish returns
PublishReturn ==
  /\ passes # <<>> /\ Top.running.handler = NilHandler
  /\ LiveAhead(Top) = {}
  /\ passes' = SubSeq(passes, 1, Len(passes) - 1)
  /\ lastPass' = [start |-> Top.start, invoked |-> Top.invoked, quiet |-> Top.quiet,
                  arg |-> Top.arg]
  /\ lastCall' = [op |-> "PublishReturn", handler |-> NilHandler, handle |-> 0]
  /\ UNCHANGED <<handlers, capacity, registrations, published, treeVars, otherVars>>

\* an event without handlers, as declared
NewEvent ==
  /\ handlers = <<>>
  /\ capacity = 0
  /\ passes = <<>>
  /\ registrations = <<>>
  /\ lastCall = [op |-> "new", handler |-> NilHandler, handle |-> 0]
  /\ lastPass = [start |-> <<>>, invoked |-> <<>>, quiet |-> TRUE, arg |-> 0]
  /\ published = 0

\* the model publishes item-changed for its item x
ItemChanged(x, failAt) ==
  /\ Running /\ model /\ Subscribed(tvModel, "itemChanged")
  /\ InModel(children, x)
  /\ Commit(onItemChanged(Handling(Frame(children, failAt, FALSE)), x), "ItemChanged", x)

\* the model sets the check flag of its item x to b and publishes item-checked
ItemChecked(x, b, failAt, o) ==
  /\ Running /\ model /\ Subscribed(tvModel, "itemChecked")
  /\ InModel(children, x)
  /\ Commit(onItemChecked(
              Observed(Handling([Frame(children, failAt, FALSE) EXCEPT !.checked[x] = b]), o),
              x),
            "ItemChecked", x)

\* ------------------------------------------------------------ window groups
ThreadIDs == 1..NumThreads

Callers == 1..NumCallers

Deltas == (0 - MaxDelta)..MaxDelta

\* the manager and its groups during a call
GroupFrame == [groups |-> groups, wgs |-> wgs, panic |-> "none", ret |-> NoGroup]

newWindowGroup(threadID) ==
  [refs |-> 0, ignored |-> 0, threadID |-> threadID, removed |-> FALSE, completions |-> 0]

Panicked(w, message) == [w EXCEPT !.panic = message]

\* m.removeGroup(threadID)
removeGroup(w, threadID) == [w EXCEPT !.groups[threadID] = NoGroup]

\* g.dispose(): the group has no tool tip
dispose(w, g) ==
  removeGroup([w EXCEPT !.wgs[g].removed = TRUE, !.wgs[g].completions = @ + 1],
              w.wgs[g].threadID)

\* g.Add once g.refs is written
AddStored(w, g) ==
  IF w.wgs[g].refs < 0 THEN Panicked(w, "negative refs")
  ELSE IF w.wgs[g].refs - w.wgs[g].ignored = 0 THEN dispose(w, g)
  ELSE w

\* a variant of Add that does not look at g.removed
AddUnguarded(w, g, delta) == AddStored([w EXCEPT !.wgs[g].refs = @ + delta], g)

\* g.Add(delta)
Add(w, g, delta) ==
  IF w.wgs[g].removed THEN Panicked(w, "Add on removed")
  ELSE AddStored([w EXCEPT !.wgs[g].refs = @ + delta], g)

\* g.Done()
Done(w, g) == Add(w, g, 0 - 1)

\* g.ignore once g.ignored is written
ignoreStored(w, g) ==
  IF w.wgs[g].ignored < 0 THEN Panicked(w, "negative ignored")
  ELSE IF w.wgs[g].refs - w.wgs[g].ignored = 0 THEN dispose(w, g)
  ELSE w

\* g.ignore(delta)
ignore(w, g, delta) ==
  IF w.wgs[g].removed THEN Panicked(w, "ignore on removed")
  ELSE ignoreStored([w EXCEPT !.wgs[g].ignored = @ + delta], g)

\* Group returns the group g
Returning(w, g) == [w EXCEPT !.ret = g]

\* Group, slow path, no group found under the write lock: the new group is
\* created, counted and registered
GroupCreated(w, threadID) ==
  Returning([Add([w EXCEPT !.wgs = Append(@, newWindowGroup(threadID))],
                 Len(w.wgs) + 1, 1)
               EXCEPT !.groups[threadID] = Len(w.wgs) + 1],
            Len(w.wgs) + 1)

\* Group, slow path
GroupSlow(w, threadID) ==
  IF w.groups[threadID] # NoGroup
  THEN Returning(Add(w, w.groups[threadID], 1), w.groups[threadID])
  ELSE GroupCreated(w, threadID)

\* m.Group(threadID) with no other goroutine running
Group(w, threadID) ==
  IF w.groups[threadID] # NoGroup
  THEN Returning(Add(w, w.groups[threadID], 1), w.groups[threadID])
  ELSE GroupSlow(w, threadID)

WgRunning == wgPanic = "none" /\ wgLeft > 0

WgCommit(w, op, g, delta) ==
  /\ groups' = w.groups
  /\ wgs' = w.wgs
  /\ wgPanic' = w.panic
  /\ wgLeft' = wgLeft - 1
  /\ wgLast' = [op |-> op, g |-> g, delta |-> delta, caller |-> 0]
  /\ UNCHANGED <<callers, treeVars, eventVars, numberVars, loopVars>>

\* a window asks the manager for the group of its thread
WgGroup(threadID) ==
  /\ WgRunning
  /\ groups[threadID] = NoGroup => Len(wgs) < MaxGroups
  /\ WgCommit(Group(GroupFrame, threadID), "Group",
              Group(GroupFrame, threadID).ret, 1)

WgAdd(g, delta) ==
  /\ WgRunning /\ g \in DOMAIN wgs
  /\ WgCommit(Add(GroupFrame, g, delta), "Add", g, delta)

WgDone(g) ==
  /\ WgRunning /\ g \in DOMAIN wgs
  /\ WgCommit(Done(GroupFrame, g), "Done", g, 0 - 1)

WgIgnore(g, delta) ==
  /\ WgRunning /\ g \in DOMAIN wgs
  /\ WgCommit(ignore(GroupFrame, g, delta), "ignore", g, delta)

\* a goroutine that is in no call: pc is its position, t and g the thread ID
\* and the group of its call, d the delta of its Add, v the g.refs it has read
Idle == [pc |-> "idle", t |-> 0, g |-> NoGroup, v |-> 0, d |-> 0, call |-> "none"]

MgrCommit(w, p, c, op, spent) ==
  /\ groups' = w.groups
  /\ wgs' = w.wgs
  /\ wgPanic' = w.panic
  /\ callers' = [callers EXCEPT ![p] = c]
  /\ wgLeft' = wgLeft - spent
  /\ wgLast' = [op |-> op, g |-> c.g, delta |-> c.d, caller |-> p]
  /\ UNCHANGED <<treeVars, eventVars, numberVars, loopVars>>

\* Group, fast path: m.groups[threadID] is read under the read lock; a group
\* found is counted after RUnlock
MgrFast(p, threadID) ==
  /\ WgRunning /\ callers[p].pc = "idle"
  /\ MgrCommit(GroupFrame, p,
               IF groups[threadID] # NoGroup
               THEN [Idle EXCEPT !.pc = "add", !.t = threadID, !.call = "Group",
                                 !.g = groups[threadID], !.d = 1]
               ELSE [Idle EXCEPT !.pc = "slow", !.t = threadID, !.call = "Group"],
               "GroupFast", 1)

\* Group, slow path: one critical section under the write lock; a group found
\* is counted after Unlock, a new one is counted and registered before it
MgrSlow(p) ==
  /\ wgPanic = "none" /\ callers[p].pc = "slow"
  /\ groups[callers[p].t] = NoGroup => Len(wgs) < MaxGroups
  /\ IF groups[callers[p].t] # NoGroup
     THEN MgrCommit(GroupFrame, p,
                    [callers[p] EXCEPT !.pc = "add", !.g = groups[callers[p].t],
                                       !.d = 1],
                    "GroupSlow", 0)
     ELSE MgrCommit(GroupCreated(GroupFrame, callers[p].t), p,
                    [callers[p] EXCEPT !.pc = "holding", !.g = Len(wgs) + 1,
                                       !.d = 1],
                    "GroupReturn", 0)

\* g.Add: g.removed is tested and g.refs is read
MgrAddEnter(p) ==
  /\ wgPanic = "none" /\ callers[p].pc = "add"
  /\ IF wgs[callers[p].g].removed
     THEN MgrCommit(Panicked(GroupFrame, "Add on removed"), p, callers[p],
                    callers[p].call, 0)
     ELSE MgrCommit(GroupFrame, p,
                    [callers[p] EXCEPT !.pc = "store",
                                       !.v = wgs[callers[p].g].refs],
                    "AddEnter", 0)

\* g.Add: g.refs is written with the value read plus delta, and the rest of
\* Add runs; Group then returns g, Done returns
MgrAddStore(p) ==
  /\ wgPanic = "none" /\ callers[p].pc = "store"
  /\ MgrCommit(AddStored([GroupFrame EXCEPT
                            !.wgs[callers[p].g].refs = callers[p].v + callers[p].d],
                         callers[p].g),
               p,
               IF callers[p].call = "Group"
               THEN [callers[p] EXCEPT !.pc = "holding"]
               ELSE Idle,
               IF callers[p].call = "Group" THEN "GroupReturn" ELSE "DoneReturn",
               0)

\* the holder of a group calls g.Done()
MgrDone(p) ==
  /\ WgRunning /\ callers[p].pc = "holding"
  /\ MgrCommit(GroupFrame, p,
               [callers[p] EXCEPT !.pc = "add", !.d = 0 - 1, !.call = "Done"],
               "Done", 1)

\* a manager without groups
NewGroups ==
  /\ groups = [t \in ThreadIDs |-> NoGroup]
  /\ wgs = <<>>
  /\ wgPanic = "none"
  /\ callers = [p \in Callers |-> Idle]
  /\ wgLast = [op |-> "new", g |-> NoGroup, delta |-> 0, caller |-> 0]

\* ------------------------------------------------------------- NumberEdit
Numbers == (0 - MaxNumber)..MaxNumber

\* decimals tried with SetDecimals: the limits 0 and 8, one inside, one beyond
\* each limit
DecimalChoices == {0 - 1, 0, 1, 8, 9}

\* the NumberEdit during a call: err is the error the call returns, the three
\* counters are the Publish calls it made
NumberFrame ==
  [minValue |-> ne.minValue, maxValue |-> ne.maxValue, value |-> ne.value,
   decimals |-> ne.decimals, err |-> FALSE,
   valueChanged |-> 0, minChanged |-> 0, maxChanged |-> 0]

Failed(n) == [n EXCEPT !.err = TRUE]

\* nle.setValue(value, setText); fail: nle.setTextFromValue returns an error
setValue(n, value, setText, fail) ==
  IF setText /\ fail THEN Failed(n)
  ELSE IF value = n.value THEN n
  ELSE [n EXCEPT !.value = value, !.valueChanged = @ + 1]

\* nle.changeValue(value, setText)
changeValue(n, value, setText, fail) ==
  IF setText /\ fail THEN Failed(n)
  ELSE IF value = n.value THEN n
  ELSE [n EXCEPT !.value = value]

\* SetRange, after the adjustment of the value
SetRangePublish(n, minChanged, maxChanged) ==
  IF n.err THEN n
  ELSE [n EXCEPT !.minChanged = IF minChanged THEN @ + 1 ELSE @,
                 !.maxChanged = IF maxChanged THEN @ + 1 ELSE @]

\* a variant of SetRangeAdjust that leaves the value alone
SetRangeUnadjusted(n, fail) == n

\* SetRange, once minValue and maxValue are assigned
SetRangeAdjust(n, fail) ==
  IF n.minValue # n.maxValue
  THEN IF n.value < n.minValue THEN setValue(n, n.minValue, TRUE, fail)
       ELSE IF n.value > n.maxValue THEN setValue(n, n.maxValue, TRUE, fail)
       ELSE n
  ELSE n

\* a variant of SetRange that assigns the bounds before it tests them
SetRangeAssignFirst(n, min, max, fail) ==
  IF min > max THEN Failed([n EXCEPT !.minValue = min, !.maxValue = max])
  ELSE SetRangePublish(SetRangeAdjust([n EXCEPT !.minValue = min, !.maxValue = max],
                                      fail),
                       min # n.minValue, max # n.maxValue)

\* ne.SetRange(min, max)
SetRange(n, min, max, fail) ==
  IF min > max THEN Failed(n)
  ELSE SetRangePublish(SetRangeAdjust([n EXCEPT !.minValue = min, !.maxValue = max],
                                      fail),
                       min # n.minValue, max # n.maxValue)

\* the test SetValue and ChangeValue start with
OutOfRange(n, value) ==
  n.minValue # n.maxValue /\ (value < n.minValue \/ value > n.maxValue)

\* ne.SetValue(value)
SetValue(n, value, fail) ==
  IF OutOfRange(n, value) THEN Failed(n) ELSE setValue(n, value, TRUE, fail)

\* ne.ChangeValue(value)
ChangeValue(n, value, fail) ==
  IF OutOfRange(n, value) THEN Failed(n) ELSE changeValue(n, value, TRUE, fail)

\* ne.SetDecimals(decimals)
SetDecimals(n, decimals, fail) ==
  IF decimals < 0 \/ decimals > 8 THEN Failed(n)
  ELSE SetValue([n EXCEPT !.decimals = decimals], n.value, fail)

\* nle.tryUpdateValue(setText) with the text of the edit control; parsed: the
\* text is a number, value; the frame's err is the negation of the result
tryUpdateValue(n, parsed, value, setText, fail) ==
  IF parsed /\ (n.minValue = n.maxValue
                \/ (value >= n.minValue /\ value <= n.maxValue))
  THEN setValue(n, value, setText, fail)
  ELSE Failed(n)

\* the value incrementValue passes to setValue
Clamped(n, value) ==
  IF n.minValue # n.maxValue
  THEN IF value < n.minValue THEN n.minValue
       ELSE IF value > n.maxValue THEN n.maxValue
       ELSE value
  ELSE value

\* nle.incrementValue(delta): the result of setValue is dropped
incrementValue(n, delta, fail) ==
  [setValue(n, Clamped(n, n.value + delta), TRUE, fail) EXCEPT !.err = FALSE]

NeRunning == neLeft > 0

\* a and b: the arguments of the call
NeCommit(n, op, a, b) ==
  /\ ne' = [minValue |-> n.minValue, maxValue |-> n.maxValue, value |-> n.value,
            decimals |-> n.decimals]
  /\ neLast' = [op |-> op, a |-> a, b |-> b, err |-> n.err, valueChanged |-> n.valueChanged,
                minChanged |-> n.minChanged, maxChanged |-> n.maxChanged,
                ok |-> neLast.ok /\ ~n.err]
  /\ neLeft' = neLeft - 1
  /\ UNCHANGED <<treeVars, eventVars, groupVars, loopVars>>

NeSetRange(min, max, fail) ==
  NeRunning /\ NeCommit(SetRange(NumberFrame, min, max, fail), "SetRange", min, max)

NeSetValue(value, fail) ==
  NeRunning /\ NeCommit(SetValue(NumberFrame, value, fail), "SetValue", value, 0)

NeChangeValue(value, fail) ==
  NeRunning /\ NeCommit(ChangeValue(NumberFrame, value, fail), "ChangeValue", value, 0)

NeSetDecimals(decimals, fail) ==
  /\ NeRunning
  /\ NeCommit(SetDecimals(NumberFrame, decimals, fail), "SetDecimals", decimals, 0)

\* the user ends an edit with the text parsed to value (WM_KILLFOCUS, Return)
\* or changes the text in edit mode
NeTryUpdateValue(parsed, value, setText, fail) ==
  /\ NeRunning
  /\ NeCommit(tryUpdateValue(NumberFrame, parsed, value, setText, fail),
              "tryUpdateValue", value, 0)

\* an arrow key, the mouse wheel or the spin buttons
NeIncrementValue(delta, fail) ==
  /\ NeRunning /\ delta # 0
  /\ ne.value + delta \in (0 - 2 * MaxNumber)..(2 * MaxNumber)
  /\ NeCommit(incrementValue(NumberFrame, delta, fail), "incrementValue", delta, 0)

\* NewNumberEdit: no range, value 0, no decimals
NewNumberEdit ==
  /\ ne = [minValue |-> 0, maxValue |-> 0, value |-> 0, decimals |-> 0]
  /\ neLast = [op |-> "new", a |-> 0, b |-> 0, err |-> FALSE, valueChanged |-> 0,
               minChanged |-> 0, maxChanged |-> 0, ok |-> TRUE]

\* --------------------------------------------------------------- mainLoop
\* what msg.Message is: WM_KEYDOWN or any other message
Messages == {"WM_KEYDOWN", "other"}

WParams == 0..MaxWParam

\* the results of win.GetMessage: error, WM_QUIT, any other message
GetMessageResults == {0 - 1, 0, 1}

\* mainLoop returns result
LoopReturned(l, op, result) ==
  [l EXCEPT !.running = FALSE, !.op = op, !.ret = result]

\* fb.group.RunSynchronized()
RunSynchronized(l) == [l EXCEPT !.synced = TRUE, !.syncs = @ + 1]

\* the message goes to IsDialogMessage or to TranslateMessage and
\* DispatchMessage; closes: its handling destroys the window of the form
Dispatched(l, closes) == [l EXCEPT !.hWnd = @ /\ ~closes]

\* one pass of the loop after GetMessage has retrieved a message; handled is
\* the result of fb.handleKeyDown(msg)
mainLoopMessage(l, handled, closes) ==
  IF l.message = "WM_KEYDOWN" /\ handled
  THEN [Dispatched(l, closes) EXCEPT !.consumed = TRUE]
  ELSE RunSynchronized(Dispatched(l, closes))

\* one pass of the loop with fb.hWnd # 0; r is the result of GetMessage
mainLoopPass(l, r, message, wParam, handled, closes) ==
  IF r = 0 THEN LoopReturned([l EXCEPT !.wParam = wParam], "quit", wParam)
  ELSE IF r = 0 - 1 THEN LoopReturned(l, "error", 0 - 1)
  ELSE mainLoopMessage([l EXCEPT !.op = "message", !.message = message,
                                 !.wParam = wParam, !.consumed = FALSE,
                                 !.synced = FALSE, !.retrieved = @ + 1],
                       handled, closes)

\* the loop retrieves a message, a quit message or an error
MainLoopGetMessage(r, message, wParam, handled, closes) ==
  /\ loop.running /\ loop.hWnd /\ loopLeft > 0
  /\ loop' = mainLoopPass(loop, r, message, wParam, handled, closes)
  /\ loopLeft' = loopLeft - 1
  /\ UNCHANGED <<treeVars, eventVars, groupVars, numberVars>>

\* the loop finds fb.hWnd = 0 and returns 0
MainLoopEnd ==
  /\ loop.running /\ ~loop.hWnd
  /\ loop' = LoopReturned(loop, "closed", 0)
  /\ UNCHANGED <<loopLeft, treeVars, eventVars, groupVars, numberVars>>

\* mainLoop is entered with the window of the form created
NewLoop ==
  loop = [running |-> TRUE, hWnd |-> TRUE, op |-> "new", message |-> "other",
          wParam |-> 0, consumed |-> FALSE, synced |-> FALSE, retrieved |-> 0,
          syncs |-> 0, ret |-> 0]

NewOthers ==
  /\ NewGroups /\ wgLeft = 0 /\ NewNumberEdit /\ neLeft = 0
  /\ NewLoop /\ loopLeft = 0

\* NewTreeView: no model attached, empty registries, an empty native control; the
\* model that will be attached holds every item
NewTreeView ==
  /\ children = [p \in 0..NumItems |-> Ascending(KidsOf(p))]
  /\ checked = [x \in Items |-> FALSE]
  /\ modelLazy \in BOOLEAN
  /\ model = FALSE
  /\ lazyPopulation = FALSE
  /\ item2Info = EmptyMap
  /\ handle2Item = EmptyMap
  /\ currItem = NoItem
  /\ native = NativeEmpty
  /\ lastOp = [op |-> "new", item |-> NoItem, err |-> FALSE, panic |-> FALSE,
               failed |-> FALSE, calls |-> 0, refusedAt |-> 0, pub |-> <<>>,
               repeat |-> FALSE, brackets |-> 0, handled |-> 0,
               reentered |-> "none"]
  /\ suspended = 0
  /\ tvModel = NoModel
  /\ modelEvents = [m \in Models |-> [k \in EventKinds |-> <<>>]]
  /\ handlerHandles = [k \in EventKinds |-> 0]

Init == NewTreeView /\ left = MaxOps /\ NewEvent /\ NewOthers

Next ==
  \/ \E m \in {NoModel, 1}, f \in 0..MaxFailAt, n \in NullSelChoices : SetModel(m, f, n)
  \/ \E p \in 0..NumItems, f \in 0..MaxFailAt, r \in RangeOrders, n \in NullSelChoices :
       \E q \in Arrangements(KidsOf(p)) : ItemsReset(p, q, f, r, n)
  \/ \E x \in Items, i \in 0..NumItems, f \in 0..MaxFailAt : ItemInserted(x, i, f)
  \/ \E x \in Items, f \in 0..MaxFailAt, r \in RangeOrders, n \in NullSelChoices :
       ItemRemoved(x, f, r, n, NoObserver)
  \/ \E h \in Handles, f \in 0..MaxFailAt : ItemExpanding(h, f, NoObserver)
  \/ \E x \in 0..NumItems, f \in 0..MaxFailAt : SetCurrentItem(x, f, NoObserver)
  \/ \E x \in Items, e \in BOOLEAN, f \in 0..MaxFailAt : SetExpanded(x, e, f)
  \/ \E h \in Handles : Click(h, NoObserver)
  \/ \E x \in Items, c \in BOOLEAN, f \in 0..MaxFailAt : EnsureVisible(x, c, f)
  \/ \E f \in 0..MaxFailAt : ApplyRootCheckStates(f)
  \/ \E f \in 0..MaxFailAt : ExpandAll(f)
  \/ \E x \in Items, b \in BOOLEAN : ItemSetChecked(x, b)

Spec == Init /\ [][Next]_vars

\* longer runs of a lazy model: item 3 leaves and re-enters the child list of
\* root 1, items are expanded and clicked, item 3 or 5 is selected, the native
\* insertion of 3 may fail, and the control notifies a selection that ends on
\* no item
InitLazy == NewTreeView /\ modelLazy /\ left = MaxLazyOps /\ NewEvent /\ NewOthers

NextLazy ==
  \/ ~model /\ SetModel(1, 0, TRUE)
  \/ ItemsReset(1, <<>>, 0, FALSE, TRUE)
  \/ \E f \in 0..MaxFailAt : ItemInserted(3, 0, f)
  \/ ItemRemoved(3, 0, FALSE, TRUE, NoObserver)
  \/ \E h \in Handles : ItemExpanding(h, 0, NoObserver)
  \/ \E h \in Handles : Click(h, NoObserver)
  \/ \E x \in {3, 5} : SetCurrentItem(x, 0, NoObserver)

SpecLazy == InitLazy /\ [][NextLazy]_vars

\* the handlers an application attaches to the tree view's events: on the
\* event ev it makes the model insert, remove or update an item
Observers ==
  {[ev |-> e, op |-> o, item |-> x] :
     e \in {"currentItemChanged", "expandedChanged", "itemChecked"},
     o \in {"insert", "remove", "update"}, x \in Items}

\* the handlers an application attaches to CurrentItemChanged that call
\* SetCurrentItem
Selectors ==
  {[ev |-> "currentItemChanged", op |-> "select", item |-> x] : x \in Items}

\* an eager model whose changes and whose tree view's notifications reach a
\* handler of the application that changes the model again
InitReentrant == NewTreeView /\ ~modelLazy /\ left = MaxReenterOps /\ NewEvent /\ NewOthers

NextReentrant ==
  \/ ~model /\ SetModel(1, 0, TRUE)
  \/ \E x \in Items, n \in NullSelChoices, o \in Observers : ItemRemoved(x, 0, FALSE, n, o)
  \/ \E x \in Items, o \in Observers \cup Selectors :
       InModel(children, x) /\ SetCurrentItem(x, 0, o)
  \/ \E h \in Handles, o \in Observers : ItemExpanding(h, 0, o)
  \/ \E h \in Handles, o \in Observers : Click(h, o)
  \/ \E x \in Items, b \in BOOLEAN, o \in Observers : ItemChecked(x, b, 0, o)
  \/ \E x \in Items : ItemChanged(x, 0)

SpecReentrant == InitReentrant /\ [][NextReentrant]_vars

\* a tree view that changes its model among the models and nil, other
\* subscribers of the models' events, and models that publish while they are not
\* the tree view's model
InitModels == NewTreeView /\ left = MaxModelOps /\ NewEvent /\ NewOthers

NextModels ==
  \/ \E m \in {NoModel} \cup Models, n \in NullSelChoices : SetModel(m, 0, n)
  \/ \E m \in Models, k \in EventKinds : SubscriberAttach(m, k)
  \/ \E m \in Models, k \in EventKinds, h \in 0..MaxModelOps : SubscriberDetach(m, k, h)
  \/ \E m \in Models, k \in EventKinds, x \in 0..NumItems : DetachedModelEvent(m, k, x, 0)
  \/ \E x \in Items : ItemChanged(x, 0)
  \/ \E x \in Items, b \in BOOLEAN : ItemChecked(x, b, 0, NoObserver)

SpecModels == InitModels /\ [][NextModels]_vars

\* a window group manager whose groups are used from one goroutine
InitGroup ==
  /\ NewTreeView /\ ~modelLazy /\ left = 0 /\ NewEvent
  /\ NewGroups /\ wgLeft = MaxGroupOps /\ NewNumberEdit /\ neLeft = 0
  /\ NewLoop /\ loopLeft = 0

NextGroup ==
  \/ \E t \in ThreadIDs : WgGroup(t)
  \/ \E g \in 1..MaxGroups, d \in Deltas : WgAdd(g, d)
  \/ \E g \in 1..MaxGroups : WgDone(g)
  \/ \E g \in 1..MaxGroups, d \in Deltas : WgIgnore(g, d)

SpecGroup == InitGroup /\ [][NextGroup]_vars

\* goroutines that call Group and Done on the one manager concurrently
InitManager ==
  /\ NewTreeView /\ ~modelLazy /\ left = 0 /\ NewEvent
  /\ NewGroups /\ wgLeft = MaxCalls /\ NewNumberEdit /\ neLeft = 0
  /\ NewLoop /\ loopLeft = 0

NextManager ==
  \/ \E p \in Callers, t \in ThreadIDs : MgrFast(p, t)
  \/ \E p \in Callers : MgrSlow(p)
  \/ \E p \in Callers : MgrAddEnter(p)
  \/ \E p \in Callers : MgrAddStore(p)
  \/ \E p \in Callers : MgrDone(p)

SpecManager == InitManager /\ [][NextManager]_vars

\* a NumberEdit on its own, its setters called and its text edited in any order
InitNumberEdit ==
  /\ NewTreeView /\ ~modelLazy /\ left = 0 /\ NewEvent
  /\ NewGroups /\ wgLeft = 0 /\ NewNumberEdit /\ neLeft = MaxNumberOps
  /\ NewLoop /\ loopLeft = 0

NextNumberEdit ==
  \/ \E min \in Numbers, max \in Numbers, fail \in BOOLEAN :
       NeSetRange(min, max, fail)
  \/ \E value \in Numbers, fail \in BOOLEAN : NeSetValue(value, fail)
  \/ \E value \in Numbers, fail \in BOOLEAN : NeChangeValue(value, fail)
  \/ \E decimals \in DecimalChoices, fail \in BOOLEAN :
       NeSetDecimals(decimals, fail)
  \/ \E parsed \in BOOLEAN, value \in Numbers, setText \in BOOLEAN,
        fail \in BOOLEAN : NeTryUpdateValue(parsed, value, setText, fail)
  \/ \E delta \in Deltas, fail \in BOOLEAN : NeIncrementValue(delta, fail)

SpecNumberEdit == InitNumberEdit /\ [][NextNumberEdit]_vars

\* the main loop of a form on its own
InitLoop ==
  /\ NewTreeView /\ ~modelLazy /\ left = 0 /\ NewEvent
  /\ NewGroups /\ wgLeft = 0 /\ NewNumberEdit /\ neLeft = 0
  /\ NewLoop /\ loopLeft = MaxMessages

NextLoop ==
  \/ \E r \in GetMessageResults, message \in Messages, wParam \in WParams,
        handled \in BOOLEAN, closes \in BOOLEAN :
       MainLoopGetMessage(r, message, wParam, handled, closes)
  \/ MainLoopEnd

SpecLoop == InitLoop /\ [][NextLoop]_vars

\* an event of its own, with handlers that attach, detach and publish from
\* inside a Publish pass; the tree view stays as constructed
InitEvent == NewEvent /\ NewTreeView /\ ~modelLazy /\ left = 0 /\ NewOthers

NextEvent ==
  \/ EventAttach
  \/ EventOnce
  \/ \E h \in 1..MaxAttach : EventDetach(h)
  \/ \E a \in 1..NumArgs : EventPublish(a)
  \/ PublishInvoke
  \/ HandlerReturn
  \/ PublishReturn

SpecEvent == InitEvent /\ [][NextEvent]_vars

\* ------------------------------------------------------- claims: vocabulary
\* a live native item exists for x
HasNative(x) == \E h \in Live(native) : native.item[h] = x

\* the operation that ran last returned (with or without an error)
Completed == ~lastOp.panic

\* the operation that ran last returned without an error
Succeeded == ~lastOp.panic /\ ~lastOp.err

\* the items reached from x through ChildAt, at every depth
ModelDescendants(kids, x) ==
  {y \in Descendants(x) :
     \A z \in ({y} \cup Ancestors(y)) \ ({x} \cup Ancestors(x)) :
       z \in Range(kids[ParentOf(z)])}

\* x is realized: it has a registry entry whose handle is a live native item of x
RealizedLive(x) ==
  /\ x \in DOMAIN item2Info
  /\ item2Info[x].handle \in Live(native)
  /\ native.item[item2Info[x].handle] = x

\* the step is a checkbox click on the native item of a registered item, and
\* the handler returned
ClickStep == lastOp'.op = "Click" /\ ~lastOp'.panic /\ lastOp'.item # NoItem

\* the items of the native children of h, in display order
NativeItems(n, h) == [i \in 1..Len(n.kids[h]) |-> n.item[n.kids[h][i]]]

\* the native parent the item x belongs under
ParentHandle(x) == IF ParentOf(x) = NoItem THEN TVI_ROOT ELSE item2Info[ParentOf(x)].handle

\* the operation that ran last was a full reset: SetModel or a global items-reset
FullReset == lastOp.op = "SetModel" \/ (lastOp.op = "ItemsReset" /\ lastOp.item = NoItem)

\* the item-checked events among the events the last operation published
ItemCheckedEvents == SelectSeq(lastOp.pub, LAMBDA e : e.ev = "itemChecked")

\* ----------------------------------------------------------------- C1 .. C4
\* C1 (invariant I1): after every completed engine operation an item has an
\* entry in item2Info if and only if a live native tree item exists for it.
C1_RegistryIffNativeItem ==
  Completed => \A x \in Items : x \in DOMAIN item2Info <=> HasNative(x)

\* C2 (invariant I2): after any sequence of engine operations every item that has
\* a registry entry has its parent and all further ancestors in the registry too.
C2_AncestorsRealized ==
  Completed => \A x \in DOMAIN item2Info : Ancestors(x) \subseteq DOMAIN item2Info

\* C3 (removal cascades): once item-removed is processed for a realized item X, no
\* registry entry and no native item is left for X or any descendant of X, X is
\* out of its parent's child map, and the parent's own entry is otherwise as it was.
C3_RemovalCascades ==
  [][(lastOp'.op = "ItemRemoved" /\ ~lastOp'.panic /\ ~lastOp'.err
      /\ lastOp'.item \in DOMAIN item2Info)
     => /\ \A y \in {lastOp'.item} \cup Descendants(lastOp'.item) :
             /\ y \notin DOMAIN item2Info'
             /\ \A h \in DOMAIN handle2Item' : handle2Item'[h] # y
             /\ \A h \in Live(native') : native'.item[h] # y
        /\ \A p \in DOMAIN item2Info : p = ParentOf(lastOp'.item) =>
             /\ p \in DOMAIN item2Info'
             /\ item2Info'[p].handle = item2Info[p].handle
             /\ item2Info'[p].child2Handle
                  = Drop(item2Info[p].child2Handle, {lastOp'.item})]_vars

\* C4: after every completed engine operation the child map of every realized
\* item P holds exactly the realized items whose Parent() is P, each with the
\* handle of the child's own registry entry.
C4_ChildMapExact ==
  Completed => \A p \in DOMAIN item2Info :
    /\ DOMAIN item2Info[p].child2Handle = {x \in DOMAIN item2Info : ParentOf(x) = p}
    /\ \A x \in DOMAIN item2Info[p].child2Handle :
         x \in DOMAIN item2Info => item2Info[p].child2Handle[x] = item2Info[x].handle

\* ----------------------------------------------------------------- C5 .. C7
\* C5: a native checkbox click on R negates R's model Checked(), and afterwards
\* every model descendant of R at every depth reports that same state, realized
\* or not.
C5_CheckReachesWholeSubtree ==
  [][ClickStep =>
       /\ checked'[lastOp'.item] = ~checked[lastOp'.item]
       /\ \A y \in ModelDescendants(children, lastOp'.item) :
            checked'[y] = checked'[lastOp'.item]]_vars

\* C6: one native checkbox click on R publishes exactly one item-checked event,
\* carrying R, and none for any descendant.
C6_OneCheckedEvent ==
  (lastOp.op = "Click" /\ Completed /\ lastOp.item # NoItem)
    => ItemCheckedEvents = <<[ev |-> "itemChecked", item |-> lastOp.item]>>

\* a click on a realized item turned on the flags of two realized descendants
C6_Witness ==
  /\ lastOp.op = "Click" /\ Completed /\ lastOp.item # NoItem
  /\ Len(lastOp.pub) = 1
  /\ checked[lastOp.item]
  /\ Cardinality({y \in ModelDescendants(children, lastOp.item) :
                    RealizedLive(y) /\ checked[y]}) >= 2

\* C7: a click on R leaves both registries as they were, and afterwards every
\* realized descendant of R shows the new state in the native control.
C7_PushTouchesRealizedOnly ==
  [][ClickStep =>
       /\ item2Info' = item2Info
       /\ handle2Item' = handle2Item
       /\ Live(native') = Live(native)
       /\ \A y \in ModelDescendants(children, lastOp'.item) :
            (y \in DOMAIN item2Info /\ item2Info[y].handle \in Live(native)
             /\ native.item[item2Info[y].handle] = y)
              => native'.chk[item2Info[y].handle] = checked'[lastOp'.item]]_vars

\* ---------------------------------------------------------------- C8 .. C10
\* C8 (lazy population deferral): after a successful SetModel / full reset of a
\* lazy model only the roots are realized and every child map is empty; after
\* the about-to-expand notification that finds the realized item P without
\* realized children (its first expansion) is processed, no native call having
\* failed, exactly the model children of P are realized and in P's child map, and
\* no grandchild or deeper descendant of P is realized.
C8_LazyDeferral ==
  [][/\ (/\ lastOp'.op = "SetModel" \/ (lastOp'.op = "ItemsReset" /\ lastOp'.item = NoItem)
         /\ ~lastOp'.panic /\ ~lastOp'.err /\ model' /\ lazyPopulation')
        => /\ DOMAIN item2Info' = Range(children'[NoItem])
           /\ \A x \in DOMAIN item2Info' : DOMAIN item2Info'[x].child2Handle = {}
     /\ (/\ lastOp'.op = "ItemExpanding" /\ ~lastOp'.panic /\ ~lastOp'.failed
         /\ model /\ lazyPopulation
         /\ lastOp'.item \in DOMAIN item2Info
         /\ DOMAIN item2Info[lastOp'.item].child2Handle = {})
        => /\ DOMAIN item2Info'[lastOp'.item].child2Handle = Range(children[lastOp'.item])
           /\ {y \in DOMAIN item2Info' : lastOp'.item \in Ancestors(y)}
                = Range(children[lastOp'.item])]_vars

\* C9: after a successful full reset the native root order is the model's root
\* order, and for a non-lazy model every model item is realized exactly once,
\* under its parent's native item, with native sibling order equal to ChildAt
\* order; for a lazy model the roots alone are realized.
C9_ResetMirrorsModel ==
  (FullReset /\ Succeeded /\ model) =>
    /\ NativeItems(native, TVI_ROOT) = children[NoItem]
    /\ \A x \in Items :
         IF InModel(children, x) /\ (~lazyPopulation \/ ParentOf(x) = NoItem)
         THEN /\ RealizedLive(x)
              /\ Cardinality({h \in Live(native) : native.item[h] = x}) = 1
              /\ handle2Item[item2Info[x].handle] = x
              /\ native.par[item2Info[x].handle] = ParentHandle(x)
              /\ NativeItems(native, item2Info[x].handle)
                   = IF lazyPopulation THEN <<>> ELSE children[x]
         ELSE x \notin DOMAIN item2Info /\ ~HasNative(x)

\* a global items-reset of a non-lazy model that swapped the roots realized all
\* six items
C9_Witness ==
  /\ lastOp.op = "ItemsReset" /\ lastOp.item = NoItem /\ Succeeded /\ model
  /\ ~lazyPopulation
  /\ children[NoItem] = <<2, 1>>
  /\ Cardinality(Live(native)) = NumItems

\* C10: in a non-lazy model, when item-inserted is processed for a new item at
\* child index i of a realized parent P all of whose other children are realized
\* under P, the new native item stands immediately behind the native item of
\* P.ChildAt(i-1) (first when i = 0); and if the native child order of P was the
\* model child order before, it is the model child order afterwards.
C10_InsertedBehindPredecessor ==
  [][(/\ lastOp'.op = "ItemInserted" /\ ~lastOp'.panic /\ ~lastOp'.err
      /\ model /\ ~lazyPopulation
      /\ RealizedLive(ParentOf(lastOp'.item))
      /\ \A c \in Range(children[ParentOf(lastOp'.item)]) :
           RealizedLive(c) /\ native.par[item2Info[c].handle] = ParentHandle(c))
     => LET x == lastOp'.item
            hP == item2Info[ParentOf(x)].handle
            i == IndexOf(children'[ParentOf(x)], x)
            sibs == native'.kids[hP]
        IN /\ x \in DOMAIN item2Info'
           /\ item2Info'[x].handle \in Range(sibs)
           /\ native'.item[item2Info'[x].handle] = x
           /\ IF i = 1 THEN sibs[1] = item2Info'[x].handle
              ELSE \E k \in 1..(Len(sibs) - 1) :
                     /\ sibs[k] = item2Info[children'[ParentOf(x)][i - 1]].handle
                     /\ sibs[k + 1] = item2Info'[x].handle
           /\ NativeItems(native, hP) = children[ParentOf(x)]
                => NativeItems(native', hP) = children'[ParentOf(x)]]_vars

\* item-inserted was processed for an item behind a realized sibling, and the
\* native child order of the parent is the model's
C10_Witness ==
  /\ lastOp.op = "ItemInserted" /\ Succeeded /\ model /\ ~lazyPopulation
  /\ RealizedLive(lastOp.item) /\ RealizedLive(ParentOf(lastOp.item))
  /\ Len(children[ParentOf(lastOp.item)]) >= 2
  /\ children[ParentOf(lastOp.item)][2] = lastOp.item
  /\ NativeItems(native, item2Info[ParentOf(lastOp.item)].handle)
       = children[ParentOf(lastOp.item)]

\* the model children of p that stand before index i (1-based) and have a
\* registry entry
RealizedBefore(kids, p, i) == {j \in 1..(i - 1) : kids[p][j] \in DOMAIN item2Info}

\* --------------------------------------------------------------- C11 .. C13
\* C11: when item-inserted is processed for an item of a realized parent whose
\* immediate model predecessor sibling is not realized, the handler does not
\* fail: it returns, and unless a native call was refused the item is realized
\* with its native item immediately behind that of the nearest realized preceding
\* sibling, or first among its native siblings when no preceding sibling is
\* realized.
C11_SkipsUnrealizedPredecessor ==
  [][(/\ lastOp'.op = "ItemInserted"
      /\ ParentOf(lastOp'.item) # NoItem
      /\ RealizedLive(ParentOf(lastOp'.item))
      /\ IndexOf(children'[ParentOf(lastOp'.item)], lastOp'.item) > 1
      /\ children'[ParentOf(lastOp'.item)]
                  [IndexOf(children'[ParentOf(lastOp'.item)], lastOp'.item) - 1]
           \notin DOMAIN item2Info)
     => LET x == lastOp'.item
            kids == children'[ParentOf(x)]
            before == RealizedBefore(children', ParentOf(x), IndexOf(kids, x))
            sibs == native'.kids[item2Info[ParentOf(x)].handle]
        IN /\ ~lastOp'.panic
           /\ ~lastOp'.failed =>
                /\ ~lastOp'.err
                /\ x \in DOMAIN item2Info'
                /\ item2Info'[x].handle \in Range(sibs)
                /\ IF before = {} THEN sibs[1] = item2Info'[x].handle
                   ELSE \E k \in 1..(Len(sibs) - 1) :
                          /\ sibs[k] = item2Info[kids[Max(before)]].handle
                          /\ sibs[k + 1] = item2Info'[x].handle]_vars

\* C12: processing item-inserted for an item whose parent is not realized, at
\* whatever child index, is a no-op that ends in an error and not in a crash: no
\* native call is made and the registries and the native control are unchanged.
C12_UnrealizedParentIsNoOp ==
  [][(/\ lastOp'.op = "ItemInserted"
      /\ ParentOf(lastOp'.item) # NoItem
      /\ ParentOf(lastOp'.item) \notin DOMAIN item2Info)
     => /\ ~lastOp'.panic
        /\ lastOp'.err
        /\ lastOp'.calls = 0
        /\ item2Info' = item2Info
        /\ handle2Item' = handle2Item
        /\ native' = native]_vars

\* C13: processing item-removed for an item that has no registry entry ends in
\* the invalid-item error: no crash, no native delete, both registries unchanged.
C13_RemoveUnrealizedIsInvalidItem ==
  [][(lastOp'.op = "ItemRemoved" /\ lastOp'.item \notin DOMAIN item2Info)
     => /\ ~lastOp'.panic
        /\ lastOp'.err
        /\ lastOp'.calls = 0
        /\ item2Info' = item2Info
        /\ handle2Item' = handle2Item
        /\ native' = native]_vars

\* the step is a SetCurrentItem(item) or SetExpanded(item, true) on a lazy model
\* that returned without error
EnsuringStep ==
  /\ lastOp'.op \in {"SetCurrentItem", "SetExpanded"}
  /\ lastOp'.item # NoItem
  /\ ~lastOp'.panic /\ ~lastOp'.err
  /\ model /\ lazyPopulation
  /\ InModel(children, lastOp'.item)

\* --------------------------------------------------------------- C14 .. C15
\* C14 (round-trip realization): after SetCurrentItem(item) or
\* SetExpanded(item, true) succeeded on a lazy model, item and every ancestor of
\* item have a registry entry, and the registry holds no item other than those it
\* held before the call and the model children of the items on the path from the
\* root to item (the children of item itself being populated by the expansion
\* that SetExpanded requests).
C14_RoundTripRealization ==
  [][EnsuringStep =>
       /\ ({lastOp'.item} \cup Ancestors(lastOp'.item)) \subseteq DOMAIN item2Info'
       /\ DOMAIN item2Info' \subseteq
            DOMAIN item2Info
              \cup UNION {Range(children[a]) : a \in Ancestors(lastOp'.item)}
              \cup (IF lastOp'.op = "SetExpanded" THEN Range(children[lastOp'.item])
                    ELSE {})]_vars

\* C15: EnsureVisible(item) on an item of the lazy model that is not realized,
\* the roots of the model being realized, realizes the item and its unrealized
\* ancestors, as SetCurrentItem and SetExpanded(true) do, and returns without
\* error.
C15_EnsureVisibleRealizes ==
  [][(/\ lastOp'.op = "EnsureVisible"
      /\ model /\ lazyPopulation
      /\ InModel(children, lastOp'.item)
      /\ Range(children[NoItem]) \subseteq DOMAIN item2Info
      /\ lastOp'.item \notin DOMAIN item2Info)
     => /\ ~lastOp'.panic
        /\ ~lastOp'.failed =>
             /\ ~lastOp'.err
             /\ ({lastOp'.item} \cup Ancestors(lastOp'.item)) \subseteq DOMAIN item2Info']_vars

\* the native check state of the registered item x is x's own model Checked()
ShowsModelCheck(x) ==
  /\ item2Info'[x].handle \in Live(native')
  /\ native'.chk[item2Info'[x].handle] = checked'[x]

\* --------------------------------------------------------------- C16 .. C18
\* C16 (invariant I4): an item that an operation realizes - by a reset, an insert,
\* EnsureRealized or a lazy expansion - has its native check state initialised
\* from its own model Checked(); and once a lazy expansion has been processed, no
\* native call refused, the native check state of the expanded item and of each
\* of its realized children equals their own model Checked().
C16_CheckStateFromModel ==
  [][~lastOp'.panic =>
       /\ \A x \in DOMAIN item2Info' :
            (x \notin DOMAIN item2Info \/ item2Info'[x].handle # item2Info[x].handle)
              => ShowsModelCheck(x)
       /\ (/\ lastOp'.op = "SetModel" \/ (lastOp'.op = "ItemsReset" /\ lastOp'.item = NoItem)
           /\ lastOp'.refusedAt # 1)
            => \A x \in DOMAIN item2Info' : ShowsModelCheck(x)
       /\ (/\ lastOp'.op = "ItemExpanding" /\ model /\ lazyPopulation
           /\ ~lastOp'.failed /\ lastOp'.item \in DOMAIN item2Info')
            => \A x \in ({lastOp'.item} \cup Range(children[lastOp'.item]))
                          \cap DOMAIN item2Info' : ShowsModelCheck(x)]_vars

\* a lazy expansion of root 1 realized its child 3 checked, as the model has it,
\* under the unchecked 1
C16_Witness ==
  /\ lastOp.op = "ItemExpanding" /\ lastOp.item = 1 /\ Succeeded /\ ~lastOp.failed
  /\ model /\ lazyPopulation
  /\ lastOp.calls > 0
  /\ checked[3] /\ ~checked[1]
  /\ RealizedLive(3) /\ RealizedLive(1)
  /\ native.chk[item2Info[3].handle] /\ ~native.chk[item2Info[1].handle]

\* C17: after ApplyRootCheckStates has returned, no native call refused, the
\* native check state of every realized item of the tree, roots and realized
\* descendants at every depth, equals that item's model Checked().
C17_ApplyReachesEveryItem ==
  (lastOp.op = "ApplyRootCheckStates" /\ Completed /\ ~lastOp.failed /\ model)
    => \A x \in Items :
         (RealizedLive(x) /\ InModel(children, x))
           => native.chk[item2Info[x].handle] = checked[x]

\* the last operation requested the expansion of x: the control delivered the
\* notifications of TVM_EXPAND for x's native item
ExpandRequested(x) ==
  \E i \in 1..Len(lastOp.pub) : lastOp.pub[i] = [ev |-> "expandedChanged", item |-> x]

\* C18: after ExpandAll has returned on a lazy model with every native call
\* succeeding - none refused during ExpandAll, and the roots realized as every
\* reset that succeeds leaves them - every item of the model at every depth is
\* realized, and an expand has been requested for every item that has children.
C18_ExpandAllRealizesAll ==
  (/\ lastOp.op = "ExpandAll" /\ Completed /\ ~lastOp.failed /\ model /\ lazyPopulation
   /\ Range(children[NoItem]) \subseteq DOMAIN item2Info)
    => \A x \in Items :
         InModel(children, x)
           => /\ RealizedLive(x)
              /\ children[x] # <<>> => ExpandRequested(x)

\* ExpandAll ran on the lazy model that holds all six items and requested an
\* expand for the three items that have children, down to the great-grandchild
C18_Witness ==
  /\ lastOp.op = "ExpandAll" /\ Succeeded /\ ~lastOp.failed /\ model /\ lazyPopulation
  /\ \A x \in Items : InModel(children, x) /\ RealizedLive(x)
  /\ ExpandRequested(1) /\ ExpandRequested(3) /\ ExpandRequested(5)
  /\ handle2Item = [h \in 1..NumItems |-> native.item[h]]

\* --------------------------------------------------------------- C19 .. C20
\* C19: every bulk operation - a full reset, a scoped reset, the removal of an
\* item with its descendants, ExpandAll - makes no native call after the first
\* one that is refused and ends in an error that reports the failure.
C19_BulkStopsAtFirstFailure ==
  (/\ lastOp.op \in {"SetModel", "ItemsReset", "ItemRemoved", "ExpandAll"}
   /\ Completed /\ lastOp.failed)
    => lastOp.err /\ lastOp.calls = lastOp.refusedAt

\* C20: a refused native call is surfaced and changes no registry.  When the
\* native insert of an inserted item is refused, the operation ends in an error
\* and both registries are as before; when a native delete is refused during the
\* removal of an item, the operation ends in an error and the item keeps its
\* entries in item2Info, in handle2Item and in its parent's child map (and when
\* the first delete was the one refused, both registries are as before); when
\* the native delete-all of a reset is refused, the operation ends in an error
\* and both registries are as before.
C20_RefusedCallChangesNoRegistry ==
  [][~lastOp'.panic =>
       /\ (lastOp'.op = "ItemInserted" /\ lastOp'.refusedAt = 1)
            => /\ lastOp'.err
               /\ item2Info' = item2Info
               /\ handle2Item' = handle2Item
       /\ (lastOp'.op = "ItemRemoved" /\ lastOp'.failed)
            => /\ lastOp'.err
               /\ lastOp'.refusedAt = 1
                    => item2Info' = item2Info /\ handle2Item' = handle2Item
               /\ lastOp'.item \in DOMAIN item2Info =>
                    /\ lastOp'.item \in DOMAIN item2Info'
                    /\ item2Info'[lastOp'.item].handle = item2Info[lastOp'.item].handle
                    /\ \A h \in DOMAIN handle2Item :
                         handle2Item[h] = lastOp'.item
                           => h \in DOMAIN handle2Item' /\ handle2Item'[h] = lastOp'.item
                    /\ \A p \in DOMAIN item2Info :
                         (p = ParentOf(lastOp'.item)
                          /\ lastOp'.item \in DOMAIN item2Info[p].child2Handle)
                           => /\ p \in DOMAIN item2Info'
                              /\ lastOp'.item \in DOMAIN item2Info'[p].child2Handle
                              /\ item2Info'[p].child2Handle[lastOp'.item]
                                   = item2Info[p].child2Handle[lastOp'.item]
       /\ (/\ lastOp'.op = "SetModel" \/ (lastOp'.op = "ItemsReset" /\ lastOp'.item = NoItem)
           /\ lastOp'.refusedAt = 1)
            => /\ lastOp'.err
               /\ item2Info' = item2Info
               /\ handle2Item' = handle2Item]_vars

\* the removal of the realized item 3 ended in an error because a native delete
\* was refused, and 3 is still realized and in the child map of its parent
C20_Witness ==
  /\ lastOp.op = "ItemRemoved" /\ lastOp.item = 3
  /\ Completed /\ lastOp.failed /\ lastOp.err
  /\ RealizedLive(3) /\ RealizedLive(1)
  /\ 3 \in DOMAIN item2Info[1].child2Handle
  /\ item2Info[1].child2Handle[3] = item2Info[3].handle
  /\ handle2Item[item2Info[3].handle] = 3

\* --------------------------------------------------------------- C21 .. C30
\* the step processes items-reset scoped to the item p
ScopedResetStep(p) == lastOp'.op = "ItemsReset" /\ lastOp'.item = p /\ p # NoItem

\* C24: processing items-reset scoped to a realized item P leaves, on success,
\* exactly the model children of P in P's child map and in the registry - with
\* all their model descendants when the view is not lazy, with none of them
\* when it is -, leaves no entry for a previously realized descendant of P that
\* the model no longer holds under P, and changes no registry entry outside
\* P's subtree; scoped to an unrealized item it makes no native call and
\* changes neither the registries nor the native control.
C24_ScopedResetFrame ==
  [][\A p \in Items : ScopedResetStep(p) =>
       /\ (p \in DOMAIN item2Info /\ ~lastOp'.panic /\ ~lastOp'.err) =>
            /\ p \in DOMAIN item2Info'
            /\ DOMAIN item2Info'[p].child2Handle = Range(children'[p])
            /\ Range(children'[p]) \subseteq DOMAIN item2Info'
            /\ ~lazyPopulation' => ModelDescendants(children', p) \subseteq DOMAIN item2Info'
            /\ lazyPopulation' =>
                 \A y \in Descendants(p) \ Range(children'[p]) : y \notin DOMAIN item2Info'
            /\ \A y \in (Descendants(p) \cap DOMAIN item2Info) \ ModelDescendants(children', p) :
                 y \notin DOMAIN item2Info'
            /\ \A x \in Items \ ({p} \cup Descendants(p)) :
                 /\ x \in DOMAIN item2Info' <=> x \in DOMAIN item2Info
                 /\ x \in DOMAIN item2Info => item2Info'[x] = item2Info[x]
       /\ (p \notin DOMAIN item2Info /\ ~lastOp'.panic) =>
            /\ lastOp'.calls = 0
            /\ item2Info' = item2Info
            /\ handle2Item' = handle2Item
            /\ native' = native]_vars

\* C23: CurrentItem() never returns an item without a registry entry: after every
\* completed operation - the removal of the current item or of one of its
\* ancestors, a scoped reset of an ancestor, a full reset, SetModel - the
\* current item is nil or an item that has a registry entry.
C23_CurrentItemRealized ==
  Completed => currItem = NoItem \/ currItem \in DOMAIN item2Info

\* the registry read without its handle values: the child-map keys of every
\* registered item
RegistryShape(i2i) == [x \in DOMAIN i2i |-> DOMAIN i2i[x].child2Handle]

\* the native tree read without its handle values: for every item shown, the
\* items shown under it, in display order, and the items shown as roots
NativeShape(n) ==
  [roots |-> NativeItems(n, TVI_ROOT),
   under |-> {<<n.item[h], NativeItems(n, h)>> : h \in Live(n)},
   count |-> Cardinality(Live(n))]

\* C22 (reset idempotence): a full reset that follows a full reset, both
\* successful and with the model unchanged in between, leaves the same set of
\* registered items, the same child-map shape and the same native tree as the
\* first one left; handle values may differ.
C22_ResetIdempotent ==
  [][lastOp'.repeat =>
       /\ RegistryShape(item2Info') = RegistryShape(item2Info)
       /\ {handle2Item'[h] : h \in DOMAIN handle2Item'} = {handle2Item[h] : h \in DOMAIN handle2Item}
       /\ NativeShape(native') = NativeShape(native)]_vars

\* a second full reset of a lazy model has run after a first one: the two roots
\* are realized, nothing else is
C22_Witness ==
  /\ lastOp.repeat /\ model /\ lazyPopulation
  /\ DOMAIN item2Info = {1, 2} /\ HasNative(1) /\ HasNative(2)
  /\ Cardinality(Live(native)) = 2

\* the slots of hs that hold a handler
LiveSlots(hs) == {i \in 0..Len(hs) - 1 : hs[i + 1].handler # NilHandler}

\* C27: Attach stores the handler in the lowest-index slot whose handler is nil
\* and returns that index; only when no slot is vacant does it append the
\* handler and return the new last index; the slot it fills holds the once flag
\* false, whatever the flag of a reused slot was, and no other slot changes.
C27_AttachTakesLowestVacancy ==
  [][lastCall'.op = "Attach" =>
       /\ lastCall'.handle \in 0..Len(handlers)
       /\ \A j \in 0..lastCall'.handle - 1 : handlers[j + 1].handler # NilHandler
       /\ lastCall'.handle < Len(handlers) =>
            /\ handlers[lastCall'.handle + 1].handler = NilHandler
            /\ Len(handlers') = Len(handlers)
       /\ lastCall'.handle = Len(handlers) => Len(handlers') = Len(handlers) + 1
       /\ handlers'[lastCall'.handle + 1] = Slot(lastCall'.handler, FALSE)
       /\ \A j \in 0..Len(handlers) - 1 :
            j # lastCall'.handle => handlers'[j + 1] = handlers[j + 1]]_vars

\* Attach has reused slot 0, below a live handler in slot 1, after the Once
\* handler that held slot 0 was invoked and detached: the once flag of the slot
\* is false again
C27_Witness ==
  /\ lastCall.op = "Attach" /\ lastCall.handle = 0 /\ lastCall.handler = 3
  /\ registrations[1].once /\ registrations[1].handle = 0 /\ registrations[1].calls = 1
  /\ Len(handlers) = 2
  /\ handlers[1] = Slot(3, FALSE)
  /\ handlers[2].handler = 2

\* C28 (handle stability): whatever calls were made, every handler that is in a
\* slot is in the slot whose index Attach returned for it and in no other; and
\* Detach(h) for a live handle h empties slot h and leaves the once flag of
\* slot h, the handler and the once flag of every other slot and the number of
\* slots as they were.
C28_HandleStability ==
  [][/\ \A i \in LiveSlots(handlers') :
          /\ handlers'[i + 1].handler \in DOMAIN registrations'
          /\ registrations'[handlers'[i + 1].handler].handle = i
     /\ (/\ lastCall'.op = "Detach"
         /\ lastCall'.handle \in LiveSlots(handlers)
         /\ handlers[lastCall'.handle + 1].handler = lastCall'.handler) =>
          /\ Len(handlers') = Len(handlers)
          /\ handlers'[lastCall'.handle + 1]
               = Slot(NilHandler, handlers[lastCall'.handle + 1].once)
          /\ \A j \in 0..Len(handlers) - 1 :
               j # lastCall'.handle => handlers'[j + 1] = handlers[j + 1]]_vars

\* the handler of slot 0 was detached by its owner; slot 1 still holds the Once
\* handler attached second and slot 2 the handler attached third
C28_Witness ==
  /\ lastCall.op = "Detach" /\ lastCall.handle = 0
  /\ Len(handlers) = 3
  /\ handlers[1].handler = NilHandler
  /\ handlers[2] = Slot(2, TRUE)
  /\ handlers[3] = Slot(3, FALSE)

\* C29: a Publish pass during which the handler list is changed by nothing but
\* the pass itself detaching the Once handlers it invoked - no handler attaches
\* or detaches, none publishes into a pass that detaches - invokes every handler
\* that was live when the pass began exactly once, in ascending slot order, with
\* the published argument, and invokes nothing for a vacant slot.
C29_QuietPassInvokesAllLive ==
  lastPass.quiet =>
    /\ Len(lastPass.invoked) = Cardinality(LiveSlots(lastPass.start))
    /\ \A k \in 1..Len(lastPass.invoked) :
         /\ lastPass.invoked[k].slot = Ascending(LiveSlots(lastPass.start))[k]
         /\ lastPass.invoked[k].handler
              = lastPass.start[lastPass.invoked[k].slot + 1].handler
         /\ lastPass.invoked[k].arg = lastPass.arg

\* a pass over three slots, the middle one vacant, has returned: it invoked the
\* handlers of slots 0 and 2 with the argument 2
C29_Witness ==
  /\ lastCall.op = "PublishReturn" /\ lastPass.quiet /\ lastPass.arg = 2
  /\ Len(lastPass.start) = 3
  /\ LiveSlots(lastPass.start) = {0, 2}
  /\ Len(lastPass.invoked) = 2

\* the Once handlers a pass invoked
OnceInvoked(pass) ==
  {k \in 1..Len(pass.invoked) : registrations[pass.invoked[k].handler].once}

\* C30: a handler attached with Once is invoked at most once over any sequence
\* of Publish calls, a Publish issued from inside a handler of the same event
\* included, and when the Publish pass that invoked it returns its slot is vacant.
C30_OnceInvokedAtMostOnce ==
  /\ \A h \in DOMAIN registrations : registrations[h].once => registrations[h].calls <= 1
  /\ lastCall.op = "PublishReturn" =>
       \A k \in OnceInvoked(lastPass) :
         handlers[lastPass.invoked[k].slot + 1].handler = NilHandler

\* C25: every engine operation that opens a suspend bracket - resetItems, the
\* scoped items-reset handler, the item-inserted handler, ApplyRootCheckStates,
\* ExpandAll, ensureItemAndAncestorsInserted - has closed it when it is left,
\* on every exit path, error returns and panics included: once the outermost
\* operation is over no bracket is open and redraw is not suspended.
C25_BracketsClosed == suspended = 0

\* SetExpanded on an unrealized item of a lazy view opened the bracket of
\* ensureItemAndAncestorsInserted, a native insert was refused, the operation
\* returned the error, and no bracket is open
C25_Witness ==
  /\ lastOp.op = "SetExpanded" /\ lastOp.brackets >= 1
  /\ lastOp.failed /\ lastOp.err /\ ~lastOp.panic
  /\ lastOp.item \notin DOMAIN item2Info
  /\ suspended = 0

\* the two registries are inverse to each other: every item of item2Info is
\* the item handle2Item gives for its handle, and every handle of handle2Item
\* is the handle item2Info gives for its item
RegistriesInverse ==
  /\ \A x \in DOMAIN item2Info : Lookup(handle2Item, item2Info[x].handle) = x
  /\ \A h \in DOMAIN handle2Item :
       /\ handle2Item[h] \in DOMAIN item2Info
       /\ item2Info[handle2Item[h]].handle = h

\* C26: every operation during which the tree view notifies a handler that
\* re-enters insert, remove or update leaves the two registries mutually
\* consistent
C26_ReentrantRegistriesConsistent ==
  [][(/\ RegistriesInverse /\ ~lastOp'.panic
      /\ lastOp'.reentered \in {"insert", "remove", "update"})
     => RegistriesInverse']_vars

\* C21: an event published by a model that is not the tree view's model invokes
\* no engine handler and leaves the registries, the native items and the
\* current item unchanged; SetModel leaves the engine's handlers attached to
\* the new model only, at the handles it stored, and leaves every handler of
\* another subscriber in its slot
C21_ReplacedModelDetached ==
  [][/\ lastOp'.op = "DetachedModelEvent" =>
          /\ lastOp'.handled = 0
          /\ UNCHANGED <<item2Info, handle2Item, native, currItem>>
     /\ lastOp'.op = "SetModel" =>
          \A m \in Models, k \in EventKinds :
            /\ SlotsOf(modelEvents', m, k, SubscriberHandler)
                 = SlotsOf(modelEvents, m, k, SubscriberHandler)
            /\ SlotsOf(modelEvents', m, k, TreeViewHandler)
                 = IF m = tvModel' THEN {handlerHandles'[k]} ELSE {}]_vars

\* model 1, with a handler of another subscriber on one of its events, was
\* replaced by model 2 and has published that event since, while the tree view
\* shows items
C21_Witness ==
  /\ lastOp.op = "DetachedModelEvent"
  /\ tvModel = 2
  /\ DOMAIN item2Info # {}
  /\ \E k \in EventKinds :
       /\ SlotsOf(modelEvents, 1, k, SubscriberHandler) # {}
       /\ SlotsOf(modelEvents, 1, k, NilHandler) # {}

\* ---------------------------------------------------------------- C31 .. C40

\* C33: after every operation that returned, the two registries are mutual
\* inverses: handle2Item[h] = x exactly when item2Info[x].handle = h
C33_RegistriesMutualInverses == Completed => RegistriesInverse

\* C34: processing item-inserted for a new root item, with no native call
\* refused, completes without failure and leaves the item realized under the
\* native root, at "first" or directly behind the native item of the root that
\* precedes it in the model
C34_RootInsertedAtModelPosition ==
  (lastOp.op = "ItemInserted" /\ ParentOf(lastOp.item) = NoItem /\ ~lastOp.failed)
    => /\ Succeeded
       /\ RealizedLive(lastOp.item)
       /\ native.par[item2Info[lastOp.item].handle] = TVI_ROOT
       /\ LET i == IndexOf(children[NoItem], lastOp.item)
              sibs == native.kids[TVI_ROOT]
          IN IF i = 1 THEN sibs[1] = item2Info[lastOp.item].handle
             ELSE \E k \in 1..(Len(sibs) - 1) :
                    /\ native.item[sibs[k]] = children[NoItem][i - 1]
                    /\ sibs[k + 1] = item2Info[lastOp.item].handle

\* C35: for an item-checked event of the attached model for X, with no native
\* call refused, the engine publishes exactly one item-checked event for X to
\* the view's observers, and a realized X shows X.Checked() natively
C35_ModelCheckForwarded ==
  (lastOp.op = "ItemChecked" /\ ~lastOp.failed)
    => /\ Len(ItemCheckedEvents) = 1
       /\ ItemCheckedEvents[1].item = lastOp.item
       /\ RealizedLive(lastOp.item)
            => native.chk[item2Info[lastOp.item].handle] = checked[lastOp.item]

\* C36: when SetCurrentItem returns nil, also with a current-item-changed
\* handler that calls SetCurrentItem again during the notification, the
\* current item is the item whose handle is natively selected; when it returns
\* an error the current item is unchanged
C36_CurrentItemIsNativeSelection ==
  [][(/\ lastOp'.op = "SetCurrentItem" /\ ~lastOp'.panic
      /\ lastOp'.reentered \in {"none", "select"}
      /\ currItem = Lookup(handle2Item, native.sel))
     => IF lastOp'.err THEN currItem' = currItem
        ELSE /\ currItem' \in DOMAIN item2Info'
             /\ native'.sel = item2Info'[currItem'].handle]_vars

\* C37: a Publish pass never invokes a handler that was detached, by a handler
\* of the pass, before the loop reached its slot; also when a handler of the
\* pass attached new handlers before the detach
C37_DetachedAheadNotInvoked ==
  [][lastCall'.op = "Invoke" => ~registrations[lastCall'.handler].detached]_vars

\* an Add, Done or ignore call was made on the group g
CountingStep(g) == wgLast'.op \in {"Add", "Done", "ignore"} /\ wgLast'.g = g

C38_GroupReturnsRegistered ==
  /\ ~(wgPanic = "Add on removed" /\ wgLast.op = "Group")
  /\ wgLast.op = "GroupReturn" /\ wgPanic = "none" =>
       groups[wgs[wgLast.g].threadID] = wgLast.g

RejectedCall ==
  \/ neLast'.op = "SetRange" /\ neLast'.a > neLast'.b
  \/ /\ neLast'.op \in {"SetValue", "ChangeValue"}
     /\ ne.minValue # ne.maxValue
     /\ (neLast'.a < ne.minValue \/ neLast'.a > ne.maxValue)
  \/ neLast'.op = "SetDecimals" /\ (neLast'.a < 0 \/ neLast'.a > 8)

\* C39: a rejected setter returns an error, leaves minimum, maximum, value
\* and decimals as they were, and publishes no value-changed, min-changed or
\* max-changed event
C39_RejectedSetterChangesNothing ==
  [][RejectedCall =>
       /\ neLast'.err
       /\ ne' = ne
       /\ neLast'.valueChanged = 0
       /\ neLast'.minChanged = 0
       /\ neLast'.maxChanged = 0]_vars

\* SetValue was called with a value above the maximum of a range set before
C39_Witness ==
  /\ neLast.op = "SetValue" /\ neLast.err
  /\ ne.minValue # ne.maxValue /\ neLast.a > ne.maxValue
  /\ ne.value = ne.minValue /\ ne.value # 0

\* C40: after every message that GetMessage retrieved and that is neither
\* the quit message nor an error, RunSynchronized runs before the next
\* GetMessage call returns, also when key-down handling consumed the
\* message; the loop returns the WParam of the quit message, -1 on an error,
\* and 0 once fb.hWnd is zero
C40_SynchronizedAfterEveryMessage ==
  [][/\ (loop.op = "message" /\ loop'.op \in {"message", "quit", "error"})
        => loop.synced
     /\ loop'.op = "quit" => loop'.ret = loop'.wParam
     /\ loop'.op = "error" => loop'.ret = 0 - 1
     /\ loop'.op = "closed" => loop'.ret = 0 /\ ~loop.hWnd]_vars

====
